---- MODULE Spec2Model ----
(***************************************************************************)
(* The request pipeline of go-http-server: the handler chain of the std    *)
(* adapter (Context.Next over [global middleware..., route handlers...]),  *)
(* the Gin adapter's delegation to gin's chain, and the middleware that    *)
(* drive or cut the chain (error handler, authentication, duplicate        *)
(* request suppression, timeout).  Each request runs on its own goroutine, *)
(* modelled as a call stack of frames.                                     *)
(***************************************************************************)
EXTENDS Integers, Sequences, FiniteSets, TLC

\* Bounds of the model.
MaxChain == 3
NumReq == 2
MaxWrites == 3
MaxCustom == 2

Requests == 1..NumReq

\* gin's abortIndex (math.MaxInt8 >> 1), the cursor value gin.Context.Abort sets.
AbortIndex == 63

\* HTTP status codes (net/http).
StatusOK == 200
StatusBadRequest == 400
StatusUnauthorized == 401
StatusForbidden == 403
StatusNotFound == 404
StatusMethodNotAllowed == 405
StatusConflict == 409
StatusInternalServerError == 500
StatusServiceUnavailable == 503

VARIABLES
    adapter,      \* "std" or "gin": the framework NewServer was asked for
    middleware,   \* Server.middleware: global middleware in Use order
    routes,       \* the handlers stored for the one registered route
    serving,      \* Run has been called
    live,         \* the requests this run accepts
    authCfg,      \* the AuthConfig handed to AuthMiddleware at set-up
    setupPanic,   \* set-up panicked: the program is over
    noRoute,      \* Server.noRouteHandlers
    noMethod,     \* Server.noMethodHandlers
    logCfg,       \* the LoggingConfig the logging middleware was made with
    builder,      \* the ServerBuilder's fields
    lambdaResult, \* what the last call of StartLambda returned
    created,      \* what NewServer returned: the server, its port, the error
    groupMiddleware, \* RouterGroup.middleware: what Use gave the group
    skipCall,     \* the last call of the path matcher: its arguments, what it returned
    phase,        \* per request: "idle", "running", "done", "crashed"
    request,      \* per request: the inbound request (path, headers, body id)
    handlers,     \* per request: Context.handlers
    index,        \* per request: Context.index, the cursor
    stack,        \* per request: the goroutine's call stack, innermost frame last
    panicking,    \* per request: a panic is unwinding the stack
    panicValue,   \* per request: the value the handler panicked with
    errs,         \* per request: Context.errs
    wrappers,     \* per request: the writers wrapped around the ResponseWriter
    resp,         \* per request: the calls that reached the ResponseWriter
    trace,        \* per request: history of calls and returns
    user,         \* per request: the user stored by AuthMiddleware
    logs,         \* per request: the records the logging middleware emitted
    headers,      \* per request: the response headers set through Context.SetHeader
    returned,     \* per request: what the handler's last Context.Error call returned
    store,        \* RequestIDStorage: the request IDs saved
    seen,         \* per request: the requests that had saved an ID when it checked its own
    before,       \* per request: the requests that were over when it arrived
    responseSent, \* per request: items in the timeout middleware's channel
    watcher       \* per request: the timeout goroutine: its position, its originalWriter

srvVars ==
    <<adapter, middleware, routes, serving, live, authCfg, setupPanic, noRoute, noMethod, logCfg, builder,
      lambdaResult, created, groupMiddleware, skipCall>>
ctxVars ==
    <<handlers, index, stack, panicking, panicValue, errs, wrappers, resp, trace, user, logs, headers, returned>>
dupVars == <<store, seen, before>>
toVars == <<responseSent, watcher>>
vars == <<srvVars, phase, request, ctxVars, dupVars, toVars>>

----------------------------------------------------------------------------
\* Handlers.  A scripted handler is application code: the Context calls it
\* makes, in order.  The other kinds are the repository's middleware.

Script(kind) ==
    CASE kind = "h_plain" -> <<"JSON">>
      [] kind = "m_next" -> <<"Next">>
      [] kind = "m_next2" -> <<"Next", "Next">>
      [] kind = "m_abort" -> <<"Abort">>
      [] kind = "m_abortnext" -> <<"Abort", "Next">>
      [] kind = "h_panic" -> <<"Panic">>
      [] kind = "h_error" -> <<"Error">>
      [] kind = "h_error2" -> <<"Error", "Error">>
      [] kind = "h_fail" -> <<"Fail">>
      [] OTHER -> <<>>

ScriptKinds ==
    {"h_plain", "m_next", "m_next2", "m_abort", "m_abortnext", "h_panic", "h_error", "h_error2", "h_fail"}

\* Frames of the call stack.
NextFrame(caller) == [k |-> "next", kind |-> "Next", i |-> caller, pc |-> 0, w |-> 0]
HandlerFrame(kind, i) == [k |-> "h", kind |-> kind, i |-> i, pc |-> 0, w |-> 0]

Top(r) == stack[r][Len(stack[r])]
SetTop(s, f) == [s EXCEPT ![Len(s)] = f]
Pop(s) == SubSeq(s, 1, Len(s) - 1)
Running(r) == phase[r] = "running" /\ stack[r] # <<>> /\ ~panicking[r]
AtHandler(r, kind) == Running(r) /\ Top(r).k = "h" /\ Top(r).kind = kind

Event(e, h) == [ev |-> e, h |-> h]

----------------------------------------------------------------------------
\* The response writer.  A call made through Context goes through every
\* errorCaptureWriter the error handlers installed, outermost last, and then
\* reaches the ResponseWriter, where resp records it.

NoErr == [set |-> FALSE, http |-> FALSE, code |-> 0, msg |-> ""]
HttpErr(code, msg) == [set |-> TRUE, http |-> TRUE, code |-> code, msg |-> msg]
PlainErr(msg) == [set |-> TRUE, http |-> FALSE, code |-> 0, msg |-> msg]

\* errorCaptureWriter.Write: the error it captures for a status >= 400.
CaptureErr(code, msg) ==
    IF code \in {StatusBadRequest, StatusUnauthorized, StatusForbidden, StatusInternalServerError}
    THEN HttpErr(code, msg)
    ELSE PlainErr("HTTP error")

\* The writers a middleware wraps around the context's writer: the error
\* handler's errorCaptureWriter and the logging middleware's
\* ResponseWriterWrapper.
ErrorCaptureWriter == [kind |-> "capture", statusCode |-> StatusOK, written |-> FALSE, err |-> NoErr]
ResponseWriterWrapper == [kind |-> "status", statusCode |-> StatusOK, written |-> FALSE, err |-> NoErr]

\* WriteHeader of one wrapper: both keep the code of the call;
\* ResponseWriterWrapper notes that it was written.
WrapperWriteHeader(w, code) ==
    IF w.kind = "status"
    THEN [w EXCEPT !.statusCode = code, !.written = TRUE]
    ELSE [w EXCEPT !.statusCode = code]

\* Write of one wrapper: errorCaptureWriter captures an error for a status
\* >= 400; ResponseWriterWrapper takes 200 when nothing was written before.
WrapperWrite(w, msg) ==
    IF w.kind = "status"
    THEN IF w.written THEN w ELSE [w EXCEPT !.statusCode = StatusOK, !.written = TRUE]
    ELSE IF w.statusCode >= StatusBadRequest
         THEN [w EXCEPT !.err = CaptureErr(w.statusCode, msg)]
         ELSE w

\* ResponseWriterWrapper.Status
Status(w) == IF w.written THEN w.statusCode ELSE StatusOK

\* WriteHeader through the wrappers, then the ResponseWriter's.
WriteHeader(wr, code) ==
    [ws |-> [n \in DOMAIN wr.ws |-> WrapperWriteHeader(wr.ws[n], code)],
     out |-> Append(wr.out, [op |-> "hdr", code |-> code, msg |-> ""])]

\* Write through the wrappers, then the ResponseWriter's.
Write(wr, code, msg) ==
    [ws |-> [n \in DOMAIN wr.ws |-> WrapperWrite(wr.ws[n], msg)],
     out |-> Append(wr.out, [op |-> "body", code |-> code, msg |-> msg])]

Writer(r) == [ws |-> wrappers[r], out |-> resp[r]]

\* Context.SetStatus and Context.JSON.
SetStatus(wr, code) == WriteHeader(wr, code)
JSON(wr, code, msg) == Write(SetStatus(wr, code), code, msg)

\* handleError: an HTTPError gives its own status and message, any other
\* error the configured default pair.
DefaultErrorMessage == "Internal Server Error"
HandleError(wr, err) ==
    IF err.http
    THEN JSON(wr, err.code, err.msg)
    ELSE JSON(wr, StatusInternalServerError, DefaultErrorMessage)

\* Panic values: strings, errors (one of them an HTTPError of status 400) and
\* a value that is neither; text is what err.Error() or %v gives.
PanicValue(type, text) == [type |-> type, text |-> text]
NoPanic == PanicValue("none", "")
PanicValues ==
    {PanicValue("string", "db password rejected"), PanicValue("string", "nil map"),
     PanicValue("httperror400", "bad input"), PanicValue("other", "42")}

\* fmt.Errorf("unknown error: %v", e)
UnknownError(text) == IF text = "42" THEN "unknown error: 42" ELSE "unknown error"

\* The deferred recovery converts the panic value to an InternalServerHttpError
\* whose message is the text of the value.
PanicErr(v) ==
    HttpErr(StatusInternalServerError,
            IF v.type \in {"string", "error", "httperror400"} THEN v.text ELSE UnknownError(v.text))

----------------------------------------------------------------------------
\* Requests.  The Authorization header is what strings.SplitN(header, " ", 2)
\* makes of it: n parts (0 for an empty header), the scheme and the
\* credentials.  Credentials carry their encoding and their decoded fields.
Cred(enc, parts) == [enc |-> enc, parts |-> parts]
NoCred == Cred("raw", <<>>)
Header(n, scheme, cred) == [n |-> n, scheme |-> scheme, cred |-> cred]
NoHeader == Header(0, "", NoCred)

\* No request has arrived.
NoRequests ==
    /\ phase = [r \in Requests |-> "idle"]
    /\ request = [r \in Requests |-> [path |-> "/", auth |-> NoHeader, id |-> "a"]]
    /\ handlers = [r \in Requests |-> <<>>]
    /\ index = [r \in Requests |-> -1]
    /\ stack = [r \in Requests |-> <<>>]
    /\ panicking = [r \in Requests |-> FALSE]
    /\ panicValue = [r \in Requests |-> NoPanic]
    /\ errs = [r \in Requests |-> <<>>]
    /\ wrappers = [r \in Requests |-> <<>>]
    /\ resp = [r \in Requests |-> <<>>]
    /\ trace = [r \in Requests |-> <<>>]
    /\ user = [r \in Requests |-> "none"]
    /\ logs = [r \in Requests |-> <<>>]
    /\ headers = [r \in Requests |-> {}]
    /\ returned = [r \in Requests |-> NoErr]
    /\ store = {}
    /\ seen = [r \in Requests |-> {}]
    /\ before = [r \in Requests |-> {}]
    /\ responseSent = [r \in Requests |-> 0]
    /\ watcher = [r \in Requests |-> [pc |-> "none", w |-> 0]]

\* The configuration of the logging middleware of the runs below: console
\* and remote logging, one skipped path.
LoggingConfig ==
    [skipPaths |-> <<"/health">>, loggingToConsole |-> TRUE, loggingToRemote |-> TRUE,
     remoteURL |-> "http://logs"]

\* The top-level NewServer: an empty port becomes "8080"; a server of the
\* framework asked for, or no server and an error for any other framework
\* type.
DefaultPort == "8080"
NoServer == [kind |-> "nil", port |-> ""]
NewServerDefaultsToGin(frameworkType, port) ==
    [server |-> [kind |-> IF frameworkType = "std" THEN "std" ELSE "gin",
                 port |-> IF port = "" THEN DefaultPort ELSE port],
     err |-> ""]
NewServer(frameworkType, port) ==
    LET p == IF port = "" THEN DefaultPort ELSE port
    IN CASE frameworkType = "gin" -> [server |-> [kind |-> "gin", port |-> p], err |-> ""]
         [] frameworkType = "std" -> [server |-> [kind |-> "std", port |-> p], err |-> ""]
         [] OTHER -> [server |-> NoServer, err |-> "unsupported framework type"]

\* s, err := NewServer(frameworkType, port, false): the call and what it
\* returned.
Created(frameworkType, port) ==
    [frameworkType |-> frameworkType, port |-> port, ret |-> NewServer(frameworkType, port)]
NotCreated == [frameworkType |-> "", port |-> "", ret |-> [server |-> NoServer, err |-> ""]]

\* StartLambda has not been called.
NotCalled == [called |-> FALSE, returns |-> FALSE, err |-> ""]

\* NewServerBuilder: nothing configured.  A configuration that was not given
\* is nil.
NilConfig == [nil |-> TRUE]
NewServerBuilder ==
    [controllers |-> <<>>, middleware |-> <<>>,
     loggingConfig |-> NilConfig, timeoutConfig |-> NilConfig, corsConfig |-> NilConfig,
     errorConfig |-> NilConfig,
     noRouteHandlers |-> <<>>, noMethodHandlers |-> <<>>,
     useDefaultLogging |-> FALSE, useDefaultTimeout |-> FALSE, useDefaultCORS |-> FALSE,
     useDefaultErrorHandler |-> FALSE]

\* No middleware constructor has been called with a configuration of the
\* caller's, and no builder method.
\* No call of the path matcher yet.
NoSkipCall == [fn |-> "", pathStr |-> <<>>, skipPaths |-> <<>>, ret |-> FALSE]

NoSetup ==
    /\ authCfg = NilConfig
    /\ setupPanic = FALSE
    /\ noRoute = <<>>
    /\ noMethod = <<>>
    /\ logCfg = LoggingConfig
    /\ builder = NewServerBuilder /\ lambdaResult = NotCalled /\ created = Created(adapter, DefaultPort)
    /\ groupMiddleware = <<>>
    /\ skipCall = NoSkipCall

\* NewServer: a server of either framework, nothing registered; the run
\* follows one request.
Init ==
    /\ adapter \in {"std", "gin"}
    /\ middleware = <<>>
    /\ routes = <<>>
    /\ serving = FALSE
    /\ live = {1}
    /\ NoRequests
    /\ NoSetup

----------------------------------------------------------------------------
\* Server set-up.

\* Server.Use: append to the global middleware.  The std server reads
\* s.middleware per request.  Gin combined the group's handlers with the
\* route's when the route was registered, so middleware used after that
\* reaches no chain: the model registers gin's middleware before the route.
Use(kind) ==
    /\ ~serving /\ ~setupPanic
    /\ Len(middleware) < MaxChain - 1
    /\ routes # <<>> => (adapter = "std" /\ Len(middleware) + Len(routes) < MaxChain)
    /\ middleware' = Append(middleware, kind)
    /\ UNCHANGED <<adapter, routes, serving, live, authCfg, setupPanic, noRoute, noMethod, logCfg, builder, lambdaResult, created, groupMiddleware, skipCall,
                 phase, request, ctxVars, dupVars, toVars>>

\* Server.GET (POST, ...): store the route's handlers (std), or hand them to
\* the engine, which stores them behind the middleware used so far (gin).
RegisterRoute(hs) ==
    /\ ~serving /\ ~setupPanic
    /\ routes = <<>>
    /\ hs # <<>>
    /\ Len(middleware) + Len(hs) <= MaxChain
    /\ routes' = IF adapter = "gin" THEN middleware \o hs ELSE hs
    /\ UNCHANGED <<adapter, middleware, serving, live, authCfg, setupPanic, noRoute, noMethod, logCfg, builder, lambdaResult, created, groupMiddleware, skipCall,
                 phase, request, ctxVars, dupVars, toVars>>

\* Server.Run.
Run ==
    /\ ~serving /\ ~setupPanic
    /\ routes # <<>>
    /\ serving' = TRUE
    /\ UNCHANGED <<adapter, middleware, routes, live, authCfg, setupPanic, noRoute, noMethod, logCfg, builder, lambdaResult, created, groupMiddleware, skipCall,
                 phase, request, ctxVars, dupVars, toVars>>

----------------------------------------------------------------------------
\* The chain walk.

\* The chain of a matched request: [global middleware..., route handlers...].
Chain == IF adapter = "gin" THEN routes ELSE middleware \o routes

\* Server.handleHTTP for a request that matches the route: build the Context
\* with index -1 and start the chain with ctx.Next().
HandleHTTP(r, req) ==
    /\ serving
    /\ r \in live
    /\ phase[r] = "idle"
    /\ phase' = [phase EXCEPT ![r] = "running"]
    /\ request' = [request EXCEPT ![r] = req]
    /\ handlers' = [handlers EXCEPT ![r] = Chain]
    /\ index' = [index EXCEPT ![r] = -1]
    /\ stack' = [stack EXCEPT ![r] = <<NextFrame(-1)>>]
    /\ before' = [before EXCEPT ![r] = {q \in Requests : phase[q] \in {"done", "crashed"}}]
    /\ UNCHANGED <<srvVars, panicking, panicValue, errs, wrappers, resp, trace, user, logs, headers, returned, store, seen, toVars>>

\* The one route of the server, and the method of a request (GET when the
\* request names none).
RouteMethod == "GET"
RoutePath == "/api"
Method(req) == IF "method" \in DOMAIN req THEN req.method ELSE "GET"

\* c.GetHeader("Origin"): empty when the request carries none.
Origin(req) == IF "origin" \in DOMAIN req THEN req.origin ELSE ""

\* Server.NoRoute and Server.NoMethod: called without handlers they register
\* the default one, which records a NotFoundHttpError or a
\* MethodNotAllowedHttpError with Context.Error.
NoRouteHandlers(hs) == IF hs = <<>> THEN <<"h_noroute">> ELSE hs
NoMethodHandlers(hs) == IF hs = <<>> THEN <<"h_nomethod">> ELSE hs

\* What the server does with a request.  std: the ServeMux answers a path
\* that was not registered itself; handleHTTP, reached for the registered
\* path, runs the NoMethod chain for another method (or answers 405 itself
\* when no NoMethod handler is registered) and finds the route's handlers
\* otherwise.  gin: the engine, which was not told to handle a method that is
\* not allowed, runs its NoRoute chain for whatever matches no route, and
\* answers 404 itself afterwards when nothing was written.
Direct(code, msg) ==
    [run |-> FALSE, hs |-> <<>>, es |-> <<>>, bottom |-> <<>>,
     out |-> <<[op |-> "hdr", code |-> code, msg |-> ""], [op |-> "body", code |-> code, msg |-> msg]>>]
RunChain(hs, es, bottom) == [run |-> TRUE, hs |-> hs, es |-> es, bottom |-> bottom, out |-> <<>>]
ServeFrame == [k |-> "serve", kind |-> "serveError", i |-> -1, pc |-> 0, w |-> 0]

Dispatch(req) ==
    IF adapter = "std"
    THEN IF req.path # RoutePath THEN Direct(StatusNotFound, "404 page not found")
         ELSE IF Method(req) # RouteMethod
              THEN IF noMethod # <<>>
                   THEN RunChain(middleware \o noMethod, <<PlainErr("Method not allowed for path")>>, <<>>)
                   ELSE Direct(StatusMethodNotAllowed, "Method not allowed")
              ELSE RunChain(middleware \o routes, <<>>, <<>>)
    ELSE IF req.path # RoutePath \/ Method(req) # RouteMethod
         THEN RunChain(middleware \o noRoute, <<>>, <<ServeFrame>>)
         ELSE RunChain(routes, <<>>, <<>>)

ServeHTTP(r, req) ==
    /\ serving
    /\ r \in live
    /\ phase[r] = "idle"
    /\ LET d == Dispatch(req)
       IN /\ phase' = [phase EXCEPT ![r] = IF d.run THEN "running" ELSE "done"]
          /\ handlers' = [handlers EXCEPT ![r] = d.hs]
          /\ errs' = [errs EXCEPT ![r] = d.es]
          /\ resp' = [resp EXCEPT ![r] = d.out]
          /\ stack' = [stack EXCEPT ![r] = IF d.run THEN d.bottom \o <<NextFrame(-1)>> ELSE <<>>]
    /\ request' = [request EXCEPT ![r] = req]
    /\ index' = [index EXCEPT ![r] = -1]
    /\ before' = [before EXCEPT ![r] = {q \in Requests : phase[q] \in {"done", "crashed"}}]
    /\ UNCHANGED <<srvVars, panicking, panicValue, wrappers, trace, user, logs, headers, returned, store, seen, toVars>>

\* gin's serveError, once the NoRoute chain has returned: the default 404
\* body when no handler wrote a response.
GinServeError(r) ==
    /\ Running(r) /\ Top(r).k = "serve"
    /\ resp' = [resp EXCEPT ![r] =
                   IF resp[r] = <<>> THEN Direct(StatusNotFound, "404 page not found").out ELSE resp[r]]
    /\ stack' = [stack EXCEPT ![r] = <<>>]
    /\ phase' = [phase EXCEPT ![r] = "done"]
    /\ UNCHANGED <<srvVars, request, handlers, index, panicking, panicValue, errs, wrappers, trace, user, logs, headers, returned, dupVars, toVars>>

\* The default NoRoute and NoMethod handlers.
DefaultNoRoute(r) ==
    /\ Running(r) /\ Top(r).k = "h" /\ Top(r).kind \in {"h_noroute", "h_nomethod"}
    /\ errs' = [errs EXCEPT ![r] =
                   Append(errs[r], IF Top(r).kind = "h_noroute"
                                   THEN HttpErr(StatusNotFound, "route not found")
                                   ELSE HttpErr(StatusMethodNotAllowed, "method not allowed for path"))]
    /\ stack' = [stack EXCEPT ![r] = Pop(stack[r])]
    /\ trace' = [trace EXCEPT ![r] = Append(trace[r], Event("ret", Top(r).i))]
    /\ UNCHANGED <<srvVars, phase, request, handlers, index, panicking, panicValue, wrappers, resp, user, logs, headers, returned, dupVars, toVars>>

\* Context.Next: c.index++, on entry and after the handler the loop invoked
\* has returned.
\* A cursor that advances by two.
CursorSkips(r) == index[r] + 2

Cursor(r) == index[r] + 1

\* The loop test of Next, for c.index < c.handlerCount.
\* A loop that stops one handler early.
LoopInvokeShort(r) == Cursor(r) < Len(handlers[r]) - 1

LoopInvoke(r) == Cursor(r) < Len(handlers[r])

AtNext(r) == Running(r) /\ Top(r).k = "next"

\* Next advances the cursor and, a handler being left, invokes c.handlers[c.index].
NextInvoke(r) ==
    /\ AtNext(r)
    /\ LoopInvoke(r)
    /\ index' = [index EXCEPT ![r] = Cursor(r)]
    /\ stack' = [stack EXCEPT ![r] =
                    Append(SetTop(stack[r], [Top(r) EXCEPT !.pc = Top(r).pc + 1]),
                           HandlerFrame(handlers[r][Cursor(r) + 1], Cursor(r)))]
    /\ trace' = [trace EXCEPT ![r] = Append(trace[r], Event("call", Cursor(r)))]
    /\ UNCHANGED <<srvVars, phase, request, handlers, panicking, panicValue, errs, wrappers, resp, user, logs, headers, returned, dupVars, toVars>>

\* Next advances the cursor past the last handler and returns to the handler
\* that called it, or to handleHTTP, which ends the request.
NextReturn(r) ==
    /\ AtNext(r)
    /\ ~LoopInvoke(r)
    /\ index' = [index EXCEPT ![r] = Cursor(r)]
    /\ stack' = [stack EXCEPT ![r] = Pop(stack[r])]
    /\ trace' = [trace EXCEPT ![r] = Append(trace[r], Event("nextret", Top(r).i))]
    /\ phase' = [phase EXCEPT ![r] = IF Len(stack[r]) = 1 THEN "done" ELSE "running"]
    /\ UNCHANGED <<srvVars, request, handlers, panicking, panicValue, errs, wrappers, resp, user, logs, headers, returned, dupVars, toVars>>

\* Context.Abort.  Gin sets the cursor to abortIndex; the std Context
\* exhausts the cursor.
\* An Abort that does not reach gin's context.
GinAbortLost(r) == index[r]

GinAbort(r) == AbortIndex
StdAbort(r) == Len(handlers[r])
Abort(r) == IF adapter = "gin" THEN GinAbort(r) ELSE StdAbort(r)

\* A handler calls c.Next(): the call pushes the frame of Next.
CallNext(r) ==
    /\ stack' = [stack EXCEPT ![r] =
                    Append(SetTop(stack[r], [Top(r) EXCEPT !.pc = Top(r).pc + 1]),
                           NextFrame(Top(r).i))]
    /\ trace' = [trace EXCEPT ![r] = Append(trace[r], Event("next", Top(r).i))]

\* A handler returns to the loop that invoked it.
Return(r) ==
    /\ stack' = [stack EXCEPT ![r] = Pop(stack[r])]
    /\ trace' = [trace EXCEPT ![r] = Append(trace[r], Event("ret", Top(r).i))]

Advance(r) == stack' = [stack EXCEPT ![r] = SetTop(stack[r], [Top(r) EXCEPT !.pc = Top(r).pc + 1])]

IsScript(r) == Running(r) /\ Top(r).k = "h" /\ Top(r).kind \in ScriptKinds
ScriptOp(r) ==
    IF Top(r).pc < Len(Script(Top(r).kind)) THEN Script(Top(r).kind)[Top(r).pc + 1] ELSE "Return"

\* Application handlers, one statement at a time.
HandlerNext(r) ==
    /\ IsScript(r)
    /\ ScriptOp(r) = "Next"
    /\ CallNext(r)
    /\ UNCHANGED <<srvVars, phase, request, handlers, index, panicking, panicValue, errs, wrappers, resp, user, logs, headers, returned, dupVars, toVars>>

HandlerAbort(r) ==
    /\ IsScript(r)
    /\ ScriptOp(r) = "Abort"
    /\ index' = [index EXCEPT ![r] = Abort(r)]
    /\ Advance(r)
    /\ trace' = [trace EXCEPT ![r] = Append(trace[r], Event("abort", Top(r).i))]
    /\ UNCHANGED <<srvVars, phase, request, handlers, panicking, panicValue, errs, wrappers, resp, user, logs, headers, returned, dupVars, toVars>>

HandlerJSON(r) ==
    /\ IsScript(r)
    /\ ScriptOp(r) = "JSON"
    /\ LET o == JSON(Writer(r), StatusOK, "ok")
       IN /\ wrappers' = [wrappers EXCEPT ![r] = o.ws]
          /\ resp' = [resp EXCEPT ![r] = o.out]
    /\ Advance(r)
    /\ UNCHANGED <<srvVars, phase, request, handlers, index, panicking, panicValue, errs, trace, user, logs, headers, returned, dupVars, toVars>>

HandlerPanic(r, v) ==
    /\ IsScript(r)
    /\ ScriptOp(r) = "Panic"
    /\ panicking' = [panicking EXCEPT ![r] = TRUE]
    /\ panicValue' = [panicValue EXCEPT ![r] = v]
    /\ trace' = [trace EXCEPT ![r] = Append(trace[r], Event("panic", Top(r).i))]
    /\ UNCHANGED <<srvVars, phase, request, handlers, index, stack, errs, wrappers, resp, user, logs, headers, returned, dupVars, toVars>>

HandlerReturn(r) ==
    /\ IsScript(r)
    /\ ScriptOp(r) = "Return"
    /\ Return(r)
    /\ UNCHANGED <<srvVars, phase, request, handlers, index, panicking, panicValue, errs, wrappers, resp, user, logs, headers, returned, dupVars, toVars>>

\* Context.Error: append to the error list.
AppErrors == {HttpErr(StatusBadRequest, "bad request"), PlainErr("boom")}

\* gin.Context.Error wraps an error that is no *gin.Error in one of type
\* ErrorTypePrivate, appends the wrapper to c.Errors and returns the wrapper.
GinError(e) == [set |-> TRUE, Err |-> e, Type |-> "ErrorTypePrivate"]

\* What Context.Error(e) returns: the std context returns e; the gin context
\* returns what gin.Context.Error returns.
ContextError(e) == IF adapter = "gin" THEN GinError(e) ELSE e

\* Context.Errors(): the errors in the order they were added (the gin
\* context unwraps each into its Err).
Errors(r) == errs[r]

HandlerError(r, e) ==
    /\ IsScript(r)
    /\ ScriptOp(r) = "Error"
    /\ errs' = [errs EXCEPT ![r] = Append(errs[r], e)]
    /\ returned' = [returned EXCEPT ![r] = ContextError(e)]
    /\ Advance(r)
    /\ UNCHANGED <<srvVars, phase, request, handlers, index, panicking, panicValue, wrappers, resp, trace, user, logs, headers, dupVars, toVars>>

----------------------------------------------------------------------------
\* The error-handling middleware of the two adapters.

\* Entry: the recovery function is deferred; the std middleware replaces
\* the context's writer by an errorCaptureWriter; then c.Next().
ErrorHandlerEnter(r) ==
    /\ AtHandler(r, "errh")
    /\ Top(r).pc = 0
    /\ wrappers' = [wrappers EXCEPT ![r] =
                       IF adapter = "std"
                       THEN Append(wrappers[r], ErrorCaptureWriter)
                       ELSE wrappers[r]]
    /\ stack' = [stack EXCEPT ![r] =
                    Append(SetTop(stack[r], [Top(r) EXCEPT !.pc = 1, !.w = Len(wrappers[r]) + 1]),
                           NextFrame(Top(r).i))]
    /\ trace' = [trace EXCEPT ![r] = Append(trace[r], Event("next", Top(r).i))]
    /\ UNCHANGED <<srvVars, phase, request, handlers, index, panicking, panicValue, errs, resp, user, logs, headers, returned, dupVars, toVars>>

\* The error the middleware finds once Next has returned: the one its
\* errorCaptureWriter captured (std), the first of gc.Errors (gin).
FoundError(r) ==
    IF adapter = "std"
    THEN wrappers[r][Top(r).w].err
    ELSE IF errs[r] # <<>> THEN errs[r][1] ELSE NoErr

\* After Next: respond to the error found, and on gin abort.
ErrorHandlerExit(r) ==
    /\ AtHandler(r, "errh")
    /\ Top(r).pc = 1
    /\ LET o == IF FoundError(r).set THEN HandleError(Writer(r), FoundError(r)) ELSE Writer(r)
       IN /\ wrappers' = [wrappers EXCEPT ![r] = o.ws]
          /\ resp' = [resp EXCEPT ![r] = o.out]
    /\ index' = [index EXCEPT ![r] =
                    IF adapter = "gin" /\ FoundError(r).set THEN GinAbort(r) ELSE index[r]]
    /\ Return(r)
    /\ UNCHANGED <<srvVars, phase, request, handlers, panicking, panicValue, errs, user, logs, headers, returned, dupVars, toVars>>

\* The cursor after the deferred recovery: gin's middleware aborts, the std
\* one leaves the cursor where the panicking handler stood.
RecoverIndex(r) == IF adapter = "gin" THEN GinAbort(r) ELSE index[r]

\* The deferred recovery of the error handler: recover() stops the panic,
\* handleError writes the response, and the middleware returns normally to
\* the loop that invoked it.
Recover(r) ==
    /\ phase[r] = "running"
    /\ panicking[r]
    /\ Top(r).k = "h" /\ Top(r).kind = "errh"
    /\ panicking' = [panicking EXCEPT ![r] = FALSE]
    /\ LET o == HandleError(Writer(r), PanicErr(panicValue[r]))
       IN /\ wrappers' = [wrappers EXCEPT ![r] = o.ws]
          /\ resp' = [resp EXCEPT ![r] = o.out]
    /\ index' = [index EXCEPT ![r] = RecoverIndex(r)]
    /\ stack' = [stack EXCEPT ![r] = Pop(stack[r])]
    /\ trace' = [trace EXCEPT ![r] = trace[r] \o <<Event("recover", Top(r).i), Event("ret", Top(r).i)>>]
    /\ UNCHANGED <<srvVars, phase, request, handlers, panicValue, errs, user, logs, headers, returned, dupVars, toVars>>

\* A panic leaves a frame that defers nothing; with no frame left the
\* panic reaches the engine and the request is over.
Unwind(r) ==
    /\ phase[r] = "running"
    /\ panicking[r]
    /\ ~(Top(r).k = "h" /\ Top(r).kind \in {"errh", "timeout"})
    /\ stack' = [stack EXCEPT ![r] = Pop(stack[r])]
    /\ phase' = [phase EXCEPT ![r] = IF Len(stack[r]) = 1 THEN "crashed" ELSE "running"]
    /\ panicking' = [panicking EXCEPT ![r] = Len(stack[r]) > 1]
    /\ trace' = [trace EXCEPT ![r] =
                    IF Top(r).k = "h" THEN Append(trace[r], Event("unwound", Top(r).i)) ELSE trace[r]]
    /\ UNCHANGED <<srvVars, request, handlers, index, panicValue, errs, wrappers, resp, user, logs, headers, returned, dupVars, toVars>>

----------------------------------------------------------------------------
\* The logging middleware of the two adapters, running on its own adapter's
\* context.

\* The response the client receives has the status of the first WriteHeader
\* that reached the ResponseWriter, 200 when a body came first or nothing
\* was written.
ClientStatus(out) ==
    IF out # <<>> /\ out[1].op = "hdr" THEN out[1].code ELSE StatusOK

\* gc.Writer.Status(): gin's writer keeps the status the response was written with.
GinStatus(r) == ClientStatus(resp[r])

\* Entry: the std middleware wraps the writer in a ResponseWriterWrapper;
\* then Next().
LoggingEnter(r) ==
    /\ AtHandler(r, "logging")
    /\ Top(r).pc = 0
    /\ wrappers' = [wrappers EXCEPT ![r] =
                       IF adapter = "std" THEN Append(wrappers[r], ResponseWriterWrapper)
                       ELSE wrappers[r]]
    /\ stack' = [stack EXCEPT ![r] =
                    Append(SetTop(stack[r], [Top(r) EXCEPT !.pc = 1, !.w = Len(wrappers[r]) + 1]),
                           NextFrame(Top(r).i))]
    /\ trace' = [trace EXCEPT ![r] = Append(trace[r], Event("next", Top(r).i))]
    /\ UNCHANGED <<srvVars, phase, request, handlers, index, panicking, panicValue, errs, resp, user, logs, headers, returned, dupVars, toVars>>

\* CreateLogEntry and ProcessLog: one record, to the console and to the
\* remote endpoint as configured.
MaskedCred == Cred("raw", <<"[MASKED]">>)

\* maskAuthorizationBool: the empty header stays empty; without masking the
\* header is returned as it came; otherwise "[MASKED]" stands for a header
\* that is not of two parts, and for the credentials of one that is.  (The
\* credentials of the requests here hold no blank, so that strings.Split
\* finds the parts of the header that SplitN found.)
MaskAuthorizationBool(auth, maskAuth) ==
    IF auth.n = 0 THEN auth
    ELSE IF ~maskAuth THEN auth
    ELSE IF auth.n # 2 THEN Header(1, "[MASKED]", NoCred)
    ELSE Header(2, auth.scheme, MaskedCred)

LogEntry(cfg, req, statusCode) ==
    [path |-> req.path, statusCode |-> statusCode,
     authorization |-> MaskAuthorizationBool(req.auth, ~cfg.loggingToConsole),
     console |-> cfg.loggingToConsole,
     remote |-> cfg.loggingToRemote /\ cfg.remoteURL # ""]

\* After Next: read the status, emit the record; the std middleware puts the
\* original writer back.
LoggingExit(r) ==
    /\ AtHandler(r, "logging")
    /\ Top(r).pc = 1
    /\ LET statusCode == IF adapter = "std" THEN Status(wrappers[r][Top(r).w]) ELSE GinStatus(r)
       IN logs' = [logs EXCEPT ![r] = Append(logs[r], LogEntry(logCfg, request[r], statusCode))]
    /\ wrappers' = [wrappers EXCEPT ![r] =
                       IF adapter = "std" THEN SubSeq(wrappers[r], 1, Top(r).w - 1) ELSE wrappers[r]]
    /\ Return(r)
    /\ UNCHANGED <<srvVars, phase, request, handlers, index, panicking, panicValue, errs, resp, user, headers, returned, dupVars, toVars>>

\* A handler that calls the writer it gets from c.Writer() directly: any
\* sequence of WriteHeader and Write calls.
WriteCodes == {StatusOK, StatusInternalServerError}

RawWriteHeader(r, code) ==
    /\ AtHandler(r, "h_writes")
    /\ Top(r).pc < MaxWrites
    /\ LET o == WriteHeader(Writer(r), code)
       IN /\ wrappers' = [wrappers EXCEPT ![r] = o.ws]
          /\ resp' = [resp EXCEPT ![r] = o.out]
    /\ Advance(r)
    /\ UNCHANGED <<srvVars, phase, request, handlers, index, panicking, panicValue, errs, trace, user, logs, headers, returned, dupVars, toVars>>

RawWrite(r) ==
    /\ AtHandler(r, "h_writes")
    /\ Top(r).pc < MaxWrites
    /\ LET o == Write(Writer(r), 0, "data")
       IN /\ wrappers' = [wrappers EXCEPT ![r] = o.ws]
          /\ resp' = [resp EXCEPT ![r] = o.out]
    /\ Advance(r)
    /\ UNCHANGED <<srvVars, phase, request, handlers, index, panicking, panicValue, errs, trace, user, logs, headers, returned, dupVars, toVars>>

RawReturn(r) ==
    /\ AtHandler(r, "h_writes")
    /\ Return(r)
    /\ UNCHANGED <<srvVars, phase, request, handlers, index, panicking, panicValue, errs, wrappers, resp, user, logs, headers, returned, dupVars, toVars>>

----------------------------------------------------------------------------
\* util.IsSkipPaths, the path matcher.

\* strings.Split(s, "/") of the paths and patterns of the model.
Split(s) ==
    CASE s = "/" -> <<"", "">>
      [] s = "/health" -> <<"", "health">>
      [] s = "/api" -> <<"", "api">>
      [] s = "/api/orders" -> <<"", "api", "orders">>
      [] s = "/public/*" -> <<"", "public", "*">>
      [] s = "/public/logo" -> <<"", "public", "logo">>
      [] s = "/user/:id" -> <<"", "user", ":id">>
      [] s = "/user/7" -> <<"", "user", "7">>
      [] OTHER -> <<s>>

\* strings.HasPrefix(segment, ":")
HasColonPrefix(seg) == seg \in {":id"}

\* path.Match on one segment: "*" matches any run of characters other than "/".
SegmentMatch(pat, seg) == pat = "*" \/ pat = seg

\* isWildcardMatch: path.Match(pattern, pathStr).
IsWildcardMatch(pattern, pathStr) ==
    LET p1 == Split(pattern)
        p2 == Split(pathStr)
    IN /\ Len(p1) = Len(p2)
       /\ \A n \in DOMAIN p1 : SegmentMatch(p1[n], p2[n])

\* isParamPatternMatch: segment by segment, a ":name" segment matches anything.
IsParamPatternMatch(pattern, pathStr) ==
    LET p1 == Split(pattern)
        p2 == Split(pathStr)
    IN /\ Len(p1) = Len(p2)
       /\ \A n \in DOMAIN p1 : HasColonPrefix(p1[n]) \/ p1[n] = p2[n]

IsSkipPaths(pathStr, skipPaths) ==
    \E n \in DOMAIN skipPaths :
        \/ pathStr = skipPaths[n]
        \/ IsWildcardMatch(skipPaths[n], pathStr)
        \/ IsParamPatternMatch(skipPaths[n], pathStr)

----------------------------------------------------------------------------
\* AuthMiddleware.

\* The lookup collaborators of the model: alice is known, bob is known but
\* not authorized (the lookup returns ErrForbidden), nobody else is known.
LookupUserByBasicAuth(username, password) ==
    IF password # "secret" THEN [user |-> "none", err |-> "wrong password", called |-> TRUE]
    ELSE IF username = "alice" THEN [user |-> "alice", err |-> "nil", called |-> TRUE]
    ELSE IF username = "bob" THEN [user |-> "none", err |-> "forbidden", called |-> TRUE]
    ELSE IF username = "carol" THEN [user |-> "none", err |-> "account locked: forbidden", called |-> TRUE]
    ELSE [user |-> "none", err |-> "unknown user", called |-> TRUE]

LookupUserByJWT(claims) ==
    IF claims.sub = "alice" THEN [user |-> "alice", err |-> "nil", called |-> TRUE]
    ELSE IF claims.sub = "bob" THEN [user |-> "none", err |-> "forbidden", called |-> TRUE]
    ELSE IF claims.sub = "carol" THEN [user |-> "none", err |-> "account locked: forbidden", called |-> TRUE]
    ELSE [user |-> "none", err |-> "unknown user", called |-> TRUE]

\* An error of handleBasicAuth or parseJWT itself: no lookup was called.
AuthErr(msg) == [user |-> "none", err |-> msg, called |-> FALSE]

\* handleBasicAuth: base64-decode, split once on ":", look the user up.  A
\* lookup error is wrapped (%w), so errors.Is still finds ErrForbidden.
\* lookup says whether a collaborator was supplied: a call through a nil
\* interface is a nil pointer dereference.
NilLookup == [user |-> "none", err |-> "nil pointer dereference", called |-> FALSE]

HandleBasicAuth(cred, lookup) ==
    IF cred.enc # "b64" THEN AuthErr("invalid basic auth format")
    ELSE IF Len(cred.parts) # 2 THEN AuthErr("invalid basic auth format")
    ELSE IF ~lookup THEN NilLookup
    ELSE LookupUserByBasicAuth(cred.parts[1], cred.parts[2])

\* createHmacSignature: HMAC-SHA256 of data under secret, as the pair it is a
\* function of (two signatures are equal iff key and data are).
CreateHmacSignature(data, secret) == [key |-> secret, data |-> data]

\* time.Now().Unix()
Now == 100

\* strings.Split(tokenString, "."): a credential that is not a token has no dot.
TokenParts(cred) == IF cred.enc = "jwt" THEN cred.parts ELSE <<cred>>

\* parseJWT without the check of the header's alg.
ParseJWTAnyAlg(cred, secret) ==
    LET parts == TokenParts(cred)
        Fail(msg) == [claims |-> [sub |-> "", exp |-> <<>>], err |-> msg]
    IN IF Len(parts) # 3 THEN Fail("invalid token format")
       ELSE IF ~parts[1].b64 THEN Fail("invalid token header")
       ELSE IF ~parts[2].b64 THEN Fail("invalid token payload")
       ELSE IF ~parts[3].b64 THEN Fail("invalid token signature")
       ELSE IF parts[3].bytes # CreateHmacSignature(<<parts[1], parts[2]>>, secret)
            THEN Fail("invalid token signature")
       ELSE IF parts[2].exp # <<>> /\ Now > parts[2].exp[1] THEN Fail("token expired")
       ELSE [claims |-> [sub |-> parts[2].sub, exp |-> parts[2].exp], err |-> "nil"]

\* parseJWT comparing the signature with the HMAC of the header alone.
ParseJWTHeaderSigned(cred, secret) ==
    LET parts == TokenParts(cred)
        Fail(msg) == [claims |-> [sub |-> "", exp |-> <<>>], err |-> msg]
    IN IF Len(parts) # 3 THEN Fail("invalid token format")
       ELSE IF ~parts[1].b64 THEN Fail("invalid token header")
       ELSE IF parts[1].alg # "HS256" THEN Fail("unsupported signing method")
       ELSE IF ~parts[2].b64 THEN Fail("invalid token payload")
       ELSE IF ~parts[3].b64 THEN Fail("invalid token signature")
       ELSE IF parts[3].bytes.key # secret \/ parts[3].bytes.data = <<>>
                \/ parts[3].bytes.data[1] # parts[1]
            THEN Fail("invalid token signature")
       ELSE IF parts[2].exp # <<>> /\ Now > parts[2].exp[1] THEN Fail("token expired")
       ELSE [claims |-> [sub |-> parts[2].sub, exp |-> parts[2].exp], err |-> "nil"]

\* parseJWT: three segments, a decodable header with alg HS256, a decodable
\* payload, a decodable signature equal to the HMAC of the first two segments,
\* and an exp claim, if any, that is not in the past.
\* parseJWT with an expiry that the current second has reached.
ParseJWTExpiresAt(cred, secret) ==
    LET parts == TokenParts(cred)
        Fail(msg) == [claims |-> [sub |-> "", exp |-> <<>>], err |-> msg]
    IN IF Len(parts) # 3 THEN Fail("invalid token format")
       ELSE IF ~parts[1].b64 THEN Fail("invalid token header")
       ELSE IF parts[1].alg # "HS256" THEN Fail("unsupported signing method")
       ELSE IF ~parts[2].b64 THEN Fail("invalid token payload")
       ELSE IF ~parts[3].b64 THEN Fail("invalid token signature")
       ELSE IF parts[3].bytes # CreateHmacSignature(<<parts[1], parts[2]>>, secret)
            THEN Fail("invalid token signature")
       ELSE IF parts[2].exp # <<>> /\ Now >= parts[2].exp[1] THEN Fail("token expired")
       ELSE [claims |-> [sub |-> parts[2].sub, exp |-> parts[2].exp], err |-> "nil"]

ParseJWT(cred, secret) ==
    LET parts == TokenParts(cred)
        NoClaims == [sub |-> "", exp |-> <<>>]
        Fail(msg) == [claims |-> NoClaims, err |-> msg]
    IN IF Len(parts) # 3 THEN Fail("invalid token format")
       ELSE IF ~parts[1].b64 THEN Fail("invalid token header")
       ELSE IF parts[1].alg # "HS256" THEN Fail("unsupported signing method")
       ELSE IF ~parts[2].b64 THEN Fail("invalid token payload")
       ELSE IF ~parts[3].b64 THEN Fail("invalid token signature")
       ELSE IF parts[3].bytes # CreateHmacSignature(<<parts[1], parts[2]>>, secret)
            THEN Fail("invalid token signature")
       ELSE IF parts[2].exp # <<>> /\ Now > parts[2].exp[1] THEN Fail("token expired")
       ELSE [claims |-> [sub |-> parts[2].sub, exp |-> parts[2].exp], err |-> "nil"]

\* handleBearerToken: parse and validate the token, look the user up by its claims.
HandleBearerToken(cred, secret, lookup) ==
    LET t == ParseJWT(cred, secret)
    IN IF t.err # "nil" THEN AuthErr("invalid token")
       ELSE IF ~lookup THEN NilLookup
       ELSE LookupUserByJWT(t.claims)

\* DefaultAuthConfig: JWT, the default messages, no lookup, no secret.
DefaultAuthConfig ==
    [nil |-> FALSE, authType |-> "jwt",
     userLookup |-> FALSE, basicAuthLookup |-> FALSE, jwtLookup |-> FALSE,
     unauthorizedMessage |-> "Unauthorized",
     forbiddenMessage |-> "Forbidden",
     jwtSecret |-> "",
     skipPaths |-> <<>>]

\* AuthMiddleware(config): a nil config stands for the default one.
ResolveConfig(config) == IF config.nil THEN DefaultAuthConfig ELSE config

\* AuthMiddleware without the validation of the configuration.
ValidateNothing(config) == ""

\* The validation AuthMiddleware makes before it returns the handler: the
\* panic message, or "" when the configuration passes.
ValidateAuthConfig(config) ==
    LET cfg == ResolveConfig(config)
    IN IF cfg.authType = "basic"
       THEN IF ~cfg.userLookup /\ ~cfg.basicAuthLookup
            THEN "AuthMiddleware with AuthTypeBasic requires either UserLookup or BasicAuthLookup implementation"
            ELSE ""
       ELSE IF cfg.authType = "jwt"
       THEN IF ~cfg.userLookup /\ ~cfg.jwtLookup
            THEN "AuthMiddleware with AuthTypeJWT requires either UserLookup or JWTLookup implementation"
            ELSE IF cfg.jwtSecret = ""
            THEN "JWTSecret is required when using JWT authentication"
            ELSE ""
       ELSE "Invalid AuthType specified"

\* The configurations of the model's middleware: "auth_basic" and "auth_jwt"
\* are fixed ones, "auth_built" is the one handed over at set-up.
AuthKinds == {"auth_basic", "auth_jwt"}
AuthConfig(kind) ==
    IF kind = "auth_built" THEN ResolveConfig(authCfg)
    ELSE [DefaultAuthConfig EXCEPT
            !.authType = IF kind = "auth_basic" THEN "basic" ELSE "jwt",
            !.basicAuthLookup = (kind = "auth_basic"),
            !.jwtLookup = (kind = "auth_jwt"),
            !.jwtSecret = "k1",
            !.skipPaths = <<"/health", "/public/*", "/user/:id">>]

Reject(code, msg) == [code |-> code, msg |-> msg, user |-> "none", called |-> FALSE, panic |-> FALSE]
PassNoUser(u) == [code |-> 0, msg |-> "", user |-> "none", called |-> FALSE, panic |-> FALSE]
Pass(u) == [code |-> 0, msg |-> "", user |-> u, called |-> FALSE, panic |-> FALSE]
NilDeref == [code |-> 0, msg |-> "", user |-> "none", called |-> FALSE, panic |-> TRUE]

\* err == ErrForbidden, which misses an error that wraps it.
IsErrForbiddenExact(err) == err = "forbidden"

\* errors.Is(err, ErrForbidden): err is ErrForbidden or wraps it.
IsErrForbidden(err) == err \in {"forbidden", "account locked: forbidden"}

\* What the middleware decides after a lookup.
AfterLookup(cfg, res) ==
    LET d == IF res.err = "nil pointer dereference" THEN NilDeref
             ELSE IF res.err = "nil" THEN Pass(res.user)
             ELSE IF IsErrForbidden(res.err) THEN Reject(StatusForbidden, cfg.forbiddenMessage)
             ELSE Reject(StatusUnauthorized, cfg.unauthorizedMessage)
    IN [d EXCEPT !.called = res.called]

\* The decision tree of the middleware: code 0 lets the request through.
AuthDecision(cfg, req) ==
    IF \E n \in DOMAIN cfg.skipPaths : req.path = cfg.skipPaths[n] THEN Pass("none")
    ELSE IF req.auth.n = 0 THEN Reject(StatusUnauthorized, cfg.unauthorizedMessage)
    ELSE IF req.auth.n # 2 THEN Reject(StatusUnauthorized, "Invalid authorization format")
    ELSE IF cfg.authType = "basic"
         THEN IF req.auth.scheme # "Basic"
              THEN Reject(StatusUnauthorized, "Basic authentication required")
              ELSE AfterLookup(cfg, HandleBasicAuth(req.auth.cred, cfg.basicAuthLookup \/ cfg.userLookup))
    ELSE IF cfg.authType = "jwt"
         THEN IF req.auth.scheme # "Bearer"
              THEN Reject(StatusUnauthorized, "Bearer token required")
              ELSE AfterLookup(cfg, HandleBearerToken(req.auth.cred, cfg.jwtSecret, cfg.jwtLookup \/ cfg.userLookup))
    ELSE Reject(StatusInternalServerError, "Invalid authentication configuration")

\* The handler AuthMiddleware returns: it answers 401 or 403 itself
\* (SetStatus, then JSON) or stores the user in the request, and returns.
AuthMiddleware(r) ==
    /\ Running(r) /\ Top(r).k = "h" /\ Top(r).kind \in AuthKinds \cup {"auth_built"}
    /\ LET d == AuthDecision(AuthConfig(Top(r).kind), request[r])
           o == IF d.code # 0 THEN JSON(SetStatus(Writer(r), d.code), d.code, d.msg) ELSE Writer(r)
       IN /\ wrappers' = [wrappers EXCEPT ![r] = o.ws]
          /\ resp' = [resp EXCEPT ![r] = o.out]
          /\ user' = [user EXCEPT ![r] = IF d.code = 0 /\ d.user # "none" THEN d.user ELSE user[r]]
          /\ trace' = [trace EXCEPT ![r] =
                          trace[r] \o (IF d.called THEN <<Event("lookup", Top(r).i)>> ELSE <<>>)
                                   \o (IF d.code # 0 THEN <<Event("reject", Top(r).i)>> ELSE <<>>)
                                   \o <<Event(IF d.panic THEN "panic" ELSE "ret", Top(r).i)>>]
          /\ stack' = [stack EXCEPT ![r] = IF d.panic THEN stack[r] ELSE Pop(stack[r])]
          /\ panicking' = [panicking EXCEPT ![r] = d.panic]
          /\ panicValue' = [panicValue EXCEPT ![r] =
                               IF d.panic THEN PanicValue("error", "nil pointer dereference") ELSE panicValue[r]]
    /\ UNCHANGED <<srvVars, phase, request, handlers, index, errs, logs, headers, returned, dupVars, toVars>>

\* s.Use(AuthMiddleware(config)): the constructor panics, which ends the
\* program during set-up, or returns the handler that Use registers.
UseAuth(config) ==
    /\ ~serving /\ ~setupPanic
    /\ middleware = <<>> /\ routes = <<>>
    /\ authCfg' = config
    /\ IF ValidateAuthConfig(config) # ""
       THEN setupPanic' = TRUE /\ UNCHANGED middleware
       ELSE middleware' = Append(middleware, "auth_built") /\ UNCHANGED setupPanic
    /\ UNCHANGED <<adapter, routes, serving, live, noRoute, noMethod, logCfg, builder, lambdaResult, created, groupMiddleware, skipCall,
                 phase, request, ctxVars, dupVars, toVars>>

----------------------------------------------------------------------------
\* CORSMiddleware.

\* "cors_any" is the default configuration, without a list of allowed
\* domains; "cors_list" allows one domain and no credentials.
CORSKinds == {"cors_any", "cors_list"}
CORSConfig(kind) ==
    [allowedDomains |-> IF kind = "cors_any" THEN <<>> ELSE <<"http://x.com">>,
     allowedMethods |-> "GET, POST, PUT, DELETE, OPTIONS, PATCH",
     allowedHeaders |-> "Origin, Content-Type, Authorization",
     allowCredentials |-> (kind = "cors_any"),
     maxAge |-> "86400"]

\* An Allow-Origin that is always the wildcard.
AllowOriginAny(cfg, origin) == "*"

\* The value of Access-Control-Allow-Origin for the origin: the wildcard
\* without a list, the origin itself when the list holds it, none ("")
\* when the list does not.
AllowOrigin(cfg, origin) ==
    IF cfg.allowedDomains = <<>> THEN "*"
    ELSE IF \E n \in DOMAIN cfg.allowedDomains : cfg.allowedDomains[n] = origin THEN origin
    ELSE ""

\* Context.SetHeader over the headers set so far.
SetHeader(hs, name, value) == {h \in hs : h[1] # name} \cup {<<name, value>>}

CORSHeaders(cfg, origin) ==
    LET h1 == SetHeader({}, "Access-Control-Allow-Origin", AllowOrigin(cfg, origin))
        h2 == SetHeader(h1, "Access-Control-Allow-Methods", cfg.allowedMethods)
        h3 == SetHeader(h2, "Access-Control-Allow-Headers", cfg.allowedHeaders)
        h4 == IF cfg.allowCredentials THEN SetHeader(h3, "Access-Control-Allow-Credentials", "true") ELSE h3
    IN SetHeader(h4, "Access-Control-Max-Age", cfg.maxAge)

\* The middleware returns at once for a request without Origin or with an
\* origin that is not allowed; otherwise it sets the headers and, for a
\* preflight request, sets status 200 and aborts.
CORSMiddleware(r) ==
    /\ Running(r) /\ Top(r).k = "h" /\ Top(r).kind \in CORSKinds
    /\ LET cfg == CORSConfig(Top(r).kind)
           origin == Origin(request[r])
           cross == origin # "" /\ AllowOrigin(cfg, origin) # ""
           preflight == cross /\ Method(request[r]) = "OPTIONS"
           o == IF preflight THEN SetStatus(Writer(r), StatusOK) ELSE Writer(r)
       IN /\ headers' = [headers EXCEPT ![r] =
                            IF cross
                            THEN {h \in headers[r] : \A c \in CORSHeaders(cfg, origin) : c[1] # h[1]}
                                    \cup CORSHeaders(cfg, origin)
                            ELSE headers[r]]
          /\ wrappers' = [wrappers EXCEPT ![r] = o.ws]
          /\ resp' = [resp EXCEPT ![r] = o.out]
          /\ index' = [index EXCEPT ![r] = IF preflight THEN Abort(r) ELSE index[r]]
          /\ trace' = [trace EXCEPT ![r] =
                          trace[r] \o (IF preflight THEN <<Event("abort", Top(r).i)>> ELSE <<>>)
                                   \o <<Event("ret", Top(r).i)>>]
    /\ stack' = [stack EXCEPT ![r] = Pop(stack[r])]
    /\ UNCHANGED <<srvVars, phase, request, handlers, panicking, panicValue, errs, user, logs, returned, dupVars, toVars>>

\* GetUserFromContext(c.Request().Context())
GetUserFromContext(r) == [user |-> user[r], ok |-> user[r] # "none"]

\* A handler of a protected route: it answers 200 with the user it obtains
\* from the request's context, or 401 when there is none.
ProfileHandler(r) ==
    /\ Running(r) /\ Top(r).k = "h" /\ Top(r).kind = "h_profile"
    /\ LET u == GetUserFromContext(r)
           o == IF u.ok THEN JSON(Writer(r), StatusOK, u.user)
                        ELSE JSON(Writer(r), StatusUnauthorized, "no user")
       IN /\ wrappers' = [wrappers EXCEPT ![r] = o.ws]
          /\ resp' = [resp EXCEPT ![r] = o.out]
    /\ trace' = [trace EXCEPT ![r] = trace[r] \o <<Event("ret", Top(r).i)>>]
    /\ stack' = [stack EXCEPT ![r] = Pop(stack[r])]
    /\ UNCHANGED <<srvVars, phase, request, handlers, index, panicking, panicValue, errs, user, logs, headers, returned, dupVars, toVars>>

----------------------------------------------------------------------------
\* DuplicateRequestMiddleware: generate, check, save, continue.  The storage
\* collaborator is a set of IDs; each of its calls is one step, and any call
\* of a collaborator may fail.

ConflictMessage == "Duplicate request detected"

\* RequestIDGenerator: the ID is a function of the request's content.
GenerateRequestID(req) == req.id

\* RequestIDStorage.
CheckRequestID(id) == id \in store
SaveRequestID(id) == store \cup {id}

HasEv(r, e) == \E p \in DOMAIN trace[r] : trace[r][p].ev = e

\* The middleware answers the request itself and returns.
DupReject(r, code, msg) ==
    /\ LET o == JSON(Writer(r), code, msg)
       IN /\ wrappers' = [wrappers EXCEPT ![r] = o.ws]
          /\ resp' = [resp EXCEPT ![r] = o.out]
    /\ stack' = [stack EXCEPT ![r] = Pop(stack[r])]
    /\ trace' = [trace EXCEPT ![r] =
                    trace[r] \o <<Event(IF code = StatusConflict THEN "conflict" ELSE "fail", Top(r).i),
                                  Event("reject", Top(r).i), Event("ret", Top(r).i)>>]

DupGenerate(r, ok) ==
    /\ AtHandler(r, "dup")
    /\ Top(r).pc = 0
    /\ IF ok
       THEN /\ Advance(r)
            /\ UNCHANGED <<wrappers, resp, trace>>
       ELSE DupReject(r, StatusInternalServerError, "Failed to generate request ID")
    /\ UNCHANGED <<srvVars, phase, request, handlers, index, panicking, panicValue, errs, user, logs, headers, returned, dupVars, toVars>>

\* A conflict that goes unnoticed.
DupConflictIgnored(exists) == FALSE

\* if exists: the request is a duplicate.
DupConflict(exists) == exists

DupCheck(r, ok) ==
    /\ AtHandler(r, "dup")
    /\ Top(r).pc = 1
    /\ seen' = [seen EXCEPT ![r] = {q \in Requests : HasEv(q, "saved")}]
    /\ IF ~ok
       THEN DupReject(r, StatusInternalServerError, "Failed to check request ID")
       ELSE IF DupConflict(CheckRequestID(GenerateRequestID(request[r])))
            THEN DupReject(r, StatusConflict, ConflictMessage)
            ELSE /\ Advance(r)
                 /\ UNCHANGED <<wrappers, resp, trace>>
    /\ UNCHANGED <<srvVars, phase, request, handlers, index, panicking, panicValue, errs, user, logs, headers, returned, store, before, toVars>>

\* Save the ID and, saved, continue the chain with c.Next().
DupSave(r, ok) ==
    /\ AtHandler(r, "dup")
    /\ Top(r).pc = 2
    /\ IF ok
       THEN /\ store' = SaveRequestID(GenerateRequestID(request[r]))
            /\ stack' = [stack EXCEPT ![r] =
                            Append(SetTop(stack[r], [Top(r) EXCEPT !.pc = 3]), NextFrame(Top(r).i))]
            /\ trace' = [trace EXCEPT ![r] =
                            trace[r] \o <<Event("saved", Top(r).i), Event("next", Top(r).i)>>]
            /\ UNCHANGED <<wrappers, resp>>
       ELSE /\ DupReject(r, StatusInternalServerError, "Failed to save request ID")
            /\ UNCHANGED store
    /\ UNCHANGED <<srvVars, phase, request, handlers, index, panicking, panicValue, errs, user, logs, headers, returned, seen, before, toVars>>

\* Next has returned: so does the middleware.
DupReturn(r) ==
    /\ AtHandler(r, "dup")
    /\ Top(r).pc = 3
    /\ Return(r)
    /\ UNCHANGED <<srvVars, phase, request, handlers, index, panicking, panicValue, errs, wrappers, resp, user, logs, headers, returned, dupVars, toVars>>

----------------------------------------------------------------------------
\* TimeoutMiddleware.  responseSent is a channel of capacity 1, modelled by
\* the number of items it holds.  The goroutine the middleware starts waits
\* for the deadline and then writes to originalWriter, the writer the
\* context had when the middleware was entered.

ChanCap == 1
TimeoutMessage == "Request timed out after 2s"

\* Entry: make the channel, start the goroutine, defer the completion step,
\* continue the chain with c.Next().
TimeoutEnter(r) ==
    /\ AtHandler(r, "timeout")
    /\ Top(r).pc = 0
    /\ responseSent' = [responseSent EXCEPT ![r] = 0]
    /\ watcher' = [watcher EXCEPT ![r] = [pc |-> "waiting", w |-> Len(wrappers[r])]]
    /\ stack' = [stack EXCEPT ![r] =
                    Append(SetTop(stack[r], [Top(r) EXCEPT !.pc = 1]), NextFrame(Top(r).i))]
    /\ trace' = [trace EXCEPT ![r] = Append(trace[r], Event("next", Top(r).i))]
    /\ UNCHANGED <<srvVars, phase, request, handlers, index, panicking, panicValue, errs, wrappers, resp, user, logs, headers, returned, dupVars>>

\* The middleware returns to the loop that invoked it, or the panic that ran
\* its deferred step leaves its frame.
TimeoutLeave(r) ==
    /\ stack' = [stack EXCEPT ![r] = Pop(stack[r])]
    /\ trace' = [trace EXCEPT ![r] =
                    Append(trace[r], Event(IF panicking[r] THEN "unwound" ELSE "ret", Top(r).i))]

AtDeferred(r, pc) ==
    /\ phase[r] = "running" /\ stack[r] # <<>>
    /\ Top(r).k = "h" /\ Top(r).kind = "timeout" /\ Top(r).pc = pc

\* The deferred step's select, run when Next has returned or a panic unwinds:
\* take the item the goroutine sent and return, or go on to send.
DeferredSelect(r) ==
    /\ AtDeferred(r, 1)
    /\ IF responseSent[r] > 0
       THEN /\ responseSent' = [responseSent EXCEPT ![r] = responseSent[r] - 1]
            /\ TimeoutLeave(r)
       ELSE /\ Advance(r)
            /\ UNCHANGED <<responseSent, trace>>
    /\ UNCHANGED <<srvVars, phase, request, handlers, index, panicking, panicValue, errs, wrappers, resp, user, logs, headers, returned, dupVars, watcher>>

\* The deferred step's default branch: responseSent <- true, which waits
\* while the channel is full.
DeferredSend(r) ==
    /\ AtDeferred(r, 2)
    /\ responseSent[r] < ChanCap
    /\ responseSent' = [responseSent EXCEPT ![r] = responseSent[r] + 1]
    /\ TimeoutLeave(r)
    /\ UNCHANGED <<srvVars, phase, request, handlers, index, panicking, panicValue, errs, wrappers, resp, user, logs, headers, returned, dupVars, watcher>>

AtWatcher(r, pc) == watcher[r].pc = pc
WatcherTo(r, pc) == watcher' = [watcher EXCEPT ![r].pc = pc]

\* <-timeoutCh: the deadline passes.
TimeoutFires(r) ==
    /\ AtWatcher(r, "waiting")
    /\ WatcherTo(r, "select")
    /\ UNCHANGED <<srvVars, phase, request, ctxVars, dupVars, responseSent>>

\* The goroutine's select: take the item the deferred step sent and stop, or
\* go on to answer the request.
WatcherSelect(r) ==
    /\ AtWatcher(r, "select")
    /\ IF responseSent[r] > 0
       THEN /\ responseSent' = [responseSent EXCEPT ![r] = responseSent[r] - 1]
            /\ WatcherTo(r, "done")
       ELSE /\ WatcherTo(r, "header")
            /\ UNCHANGED responseSent
    /\ UNCHANGED <<srvVars, phase, request, ctxVars, dupVars>>

\* originalWriter: the writers that were installed when the middleware was entered.
OriginalWriter(r) == [ws |-> SubSeq(wrappers[r], 1, watcher[r].w), out |-> resp[r]]
Later(r) == SubSeq(wrappers[r], watcher[r].w + 1, Len(wrappers[r]))

\* originalWriter.WriteHeader(http.StatusServiceUnavailable)
WatcherWriteHeader(r) ==
    /\ AtWatcher(r, "header")
    /\ LET o == WriteHeader(OriginalWriter(r), StatusServiceUnavailable)
       IN /\ wrappers' = [wrappers EXCEPT ![r] = o.ws \o Later(r)]
          /\ resp' = [resp EXCEPT ![r] = o.out]
    /\ WatcherTo(r, "body")
    /\ UNCHANGED <<srvVars, phase, request, handlers, index, stack, panicking, panicValue, errs, trace, user, logs, headers, returned, dupVars, responseSent>>

\* originalWriter.Write(the timeout message)
WatcherWrite(r) ==
    /\ AtWatcher(r, "body")
    /\ LET o == Write(OriginalWriter(r), StatusServiceUnavailable, TimeoutMessage)
       IN /\ wrappers' = [wrappers EXCEPT ![r] = o.ws \o Later(r)]
          /\ resp' = [resp EXCEPT ![r] = o.out]
    /\ WatcherTo(r, "send")
    /\ UNCHANGED <<srvVars, phase, request, handlers, index, stack, panicking, panicValue, errs, trace, user, logs, headers, returned, dupVars, responseSent>>

\* responseSent <- true, which waits while the channel is full.
WatcherSend(r) ==
    /\ AtWatcher(r, "send")
    /\ responseSent[r] < ChanCap
    /\ responseSent' = [responseSent EXCEPT ![r] = responseSent[r] + 1]
    /\ WatcherTo(r, "done")
    /\ UNCHANGED <<srvVars, phase, request, ctxVars, dupVars>>

----------------------------------------------------------------------------
\* The chain walk of one request over application handlers and the error
\* handler, on either adapter.

ChainKinds ==
    {"h_plain", "m_next", "m_next2", "m_abort", "m_abortnext", "h_panic", "h_error", "errh"}
WalkPanics == {PanicValue("string", "nil map")}
RouteLists(K) == {<<k>> : k \in K} \cup {<<k1, k2>> : k1 \in K, k2 \in K}
PlainRequest == [path |-> "/", auth |-> NoHeader, id |-> "a"]

Walk(r) ==
    \/ NextInvoke(r)
    \/ NextReturn(r)
    \/ HandlerNext(r)
    \/ HandlerAbort(r)
    \/ HandlerJSON(r)
    \/ \E v \in WalkPanics : HandlerPanic(r, v)
    \/ HandlerReturn(r)
    \/ \E e \in AppErrors : HandlerError(r, e)
    \/ ErrorHandlerEnter(r)
    \/ ErrorHandlerExit(r)
    \/ Recover(r)
    \/ Unwind(r)

Next ==
    \/ \E k \in ChainKinds : Use(k)
    \/ \E hs \in RouteLists(ChainKinds) : RegisterRoute(hs)
    \/ Run
    \/ \E r \in Requests : HandleHTTP(r, PlainRequest)
    \/ \E r \in Requests : Walk(r)

Spec == Init /\ [][Next]_vars

----------------------------------------------------------------------------
\* Properties of the chain walk.

Events(r) == DOMAIN trace[r]
IsEv(r, p, e) == trace[r][p].ev = e
Calls(r) == SelectSeq(trace[r], LAMBDA x : x.ev = "call")
Over(r) == phase[r] \in {"done", "crashed"}

\* Handler h returned at event p without having called Next.
ReturnedWithoutNext(r, p) ==
    /\ IsEv(r, p, "ret")
    /\ \A n \in 1..p : ~(IsEv(r, n, "next") /\ trace[r][n].h = trace[r][p].h)

\* C1: on the std adapter, once a handler has returned without calling Next(),
\* no handler registered after it is invoked for that request.
C1_StopsWithoutNext ==
    \A r \in Requests : adapter = "std" =>
        \A p \in Events(r), q \in Events(r) :
            (p < q /\ ReturnedWithoutNext(r, p))
                => ~(IsEv(r, q, "call") /\ trace[r][q].h > trace[r][p].h)

\* C3: on the std adapter the handlers invoked are the chain
\* [global middleware..., route handlers...] from its first element on, in
\* that order and each at most once, and the cursor never decreases.
C3_Ordered(r) ==
    /\ handlers[r] \in {<<>>, middleware \o routes}
    /\ \A n \in DOMAIN Calls(r) : Calls(r)[n].h = n - 1
    /\ Len(Calls(r)) <= Len(handlers[r])
    /\ \A n \in DOMAIN stack[r] :
           stack[r][n].k = "h" => stack[r][n].kind = (middleware \o routes)[stack[r][n].i + 1]

C3_OrderAndCursor ==
    [][\A r \in Requests : adapter = "std" => (C3_Ordered(r)' /\ index'[r] >= index[r])]_vars

\* A state of C3: a handler that called Next() twice has finished, behind
\* and before other handlers.
C3_Witness ==
    /\ adapter = "std"
    /\ phase[1] = "done"
    /\ Len(handlers[1]) = MaxChain
    /\ handlers[1][2] = "m_next2"
    /\ Len(Calls(1)) = MaxChain

\* Handler j, invoked at event p, is no longer running at event q.
Finished(r, p, q) ==
    \E n \in p..q : /\ trace[r][n].ev \in {"ret", "panic", "unwound"}
                    /\ trace[r][n].h = trace[r][p].h

C6_PanicEndsChain ==
    \A r \in Requests : (adapter = "std" /\ handlers[r] # <<>> /\ handlers[r][1] = "errh") =>
        \A p \in Events(r), q \in Events(r) :
            (p < q /\ IsEv(r, p, "panic"))
                => ~(IsEv(r, q, "call") /\ trace[r][q].h > trace[r][p].h)

----------------------------------------------------------------------------
\* Requests through the error handler at the head of the chain, on either
\* adapter, with handlers that record errors, panic with any value or respond.

ErrorRouteKinds == {"h_plain", "h_error", "h_error2", "h_panic"}

InitErr ==
    /\ NoRequests
    /\ adapter \in {"std", "gin"}
    /\ middleware = <<"errh">>
    /\ \E hs \in RouteLists(ErrorRouteKinds) :
          /\ Len(hs) < MaxChain
          /\ routes = IF adapter = "gin" THEN middleware \o hs ELSE hs
    /\ serving = TRUE
    /\ live = {1}
    /\ NoSetup

NextErr ==
    \/ \E r \in Requests : HandleHTTP(r, PlainRequest)
    \/ \E r \in Requests : NextInvoke(r)
    \/ \E r \in Requests : NextReturn(r)
    \/ \E r \in Requests : HandlerJSON(r)
    \/ \E r \in Requests, v \in PanicValues : HandlerPanic(r, v)
    \/ \E r \in Requests, e \in AppErrors : HandlerError(r, e)
    \/ \E r \in Requests : HandlerReturn(r)
    \/ \E r \in Requests : ErrorHandlerEnter(r)
    \/ \E r \in Requests : ErrorHandlerExit(r)
    \/ \E r \in Requests : Recover(r)
    \/ \E r \in Requests : Unwind(r)

SpecErr == InitErr /\ [][NextErr]_vars

\* The response holds a body with this status and message.
Responded(r, code, msg) ==
    \E p \in DOMAIN resp[r] : resp[r][p] = [op |-> "body", code |-> code, msg |-> msg]

\* The chain of r, headed by the error handler, has returned normally with
\* errors in the list.
ReturnedWithErrors(r) ==
    /\ phase[r] = "done"
    /\ handlers[r][1] = "errh"
    /\ errs[r] # <<>>
    /\ \A p \in Events(r) : ~IsEv(r, p, "panic")

\* C12: after the chain has returned normally with a non-empty error list,
\* the error handler of either adapter responds with the status and message
\* of an HTTPError of the list when there is one, whatever its position, and
\* with the default status and message when there is none.
C12_HTTPErrorOfTheListDecides ==
    \A r \in Requests : ReturnedWithErrors(r) =>
        LET https == {n \in DOMAIN errs[r] : errs[r][n].http}
        IN IF https # {}
           THEN \E n \in https : Responded(r, errs[r][n].code, errs[r][n].msg)
           ELSE Responded(r, StatusInternalServerError, DefaultErrorMessage)

\* The error handler is the first handler of the chain of r.
HeadedByErrorHandler(r) == handlers[r] # <<>> /\ handlers[r][1] = "errh"

\* This step is the recovery of a panic of r.
Recovers(r) == panicking[r] /\ ~panicking'[r] /\ phase'[r] = "running"

\* C13: behind an error handler at the head of the chain, a panic with a
\* string, an error (an HTTPError of another status included) or any other
\* value is recovered and answered with a 500 envelope, and no panic leaves
\* the chain unrecovered.
C13_PanicRecoveredAs500 ==
    [][\A r \in Requests : HeadedByErrorHandler(r) =>
          /\ phase'[r] # "crashed"
          /\ Recovers(r) =>
                /\ Len(resp'[r]) = Len(resp[r]) + 2
                /\ resp'[r][Len(resp'[r]) - 1].code = StatusInternalServerError
                /\ resp'[r][Len(resp'[r])].op = "body"
                /\ resp'[r][Len(resp'[r])].code = StatusInternalServerError]_vars

\* C14: the response written for a recovered panic is the same for every
\* panic value: the 500 envelope with the configured DefaultErrorMessage, so
\* the text of the panic value is not sent to the client.
C14_PanicTextNotSent ==
    [][\A r \in Requests : (HeadedByErrorHandler(r) /\ Recovers(r)) =>
          resp'[r][Len(resp'[r])] =
              [op |-> "body", code |-> StatusInternalServerError, msg |-> DefaultErrorMessage]]_vars

----------------------------------------------------------------------------
\* Requests through the logging middleware, registered in the builder's
\* order behind the error handler or alone, on either adapter.

LoggingChains == {<<"logging">>, <<"errh", "logging">>}
LoggingRoutes == {<<"h_plain">>, <<"h_error">>, <<"h_writes">>}
LoggingRequests == {[path |-> p, auth |-> NoHeader, id |-> "a"] : p \in {"/", "/health"}}

InitLog ==
    /\ NoRequests
    /\ adapter \in {"std", "gin"}
    /\ middleware \in LoggingChains
    /\ \E hs \in LoggingRoutes : routes = IF adapter = "gin" THEN middleware \o hs ELSE hs
    /\ serving = TRUE
    /\ live = {1}
    /\ NoSetup

NextLog ==
    \/ \E r \in Requests, req \in LoggingRequests : HandleHTTP(r, req)
    \/ \E r \in Requests : NextInvoke(r)
    \/ \E r \in Requests : NextReturn(r)
    \/ \E r \in Requests : HandlerJSON(r)
    \/ \E r \in Requests, e \in AppErrors : HandlerError(r, e)
    \/ \E r \in Requests : HandlerReturn(r)
    \/ \E r \in Requests, code \in WriteCodes : RawWriteHeader(r, code)
    \/ \E r \in Requests : RawWrite(r)
    \/ \E r \in Requests : RawReturn(r)
    \/ \E r \in Requests : ErrorHandlerEnter(r)
    \/ \E r \in Requests : ErrorHandlerExit(r)
    \/ \E r \in Requests : LoggingEnter(r)
    \/ \E r \in Requests : LoggingExit(r)

SpecLog == InitLog /\ [][NextLog]_vars

\* The record the logging middleware emitted for r.
Logged(r) == logs[r][Len(logs[r])]

\* C15: with the error handler registered first and the logging middleware
\* behind it, when a handler reports an HTTPError through Context.Error and
\* writes nothing itself, the status code of the log record equals the status
\* the client receives.
C15_LoggedStatusIsClientStatus ==
    \A r \in Requests :
        (/\ phase[r] = "done"
         /\ SubSeq(handlers[r], 1, 2) = <<"errh", "logging">>
         /\ errs[r] # <<>> /\ errs[r][1].http)
        => /\ logs[r] # <<>>
           /\ Logged(r).statusCode = ClientStatus(resp[r])

\* C16: whatever WriteHeader and Write calls were made through the std
\* ResponseWriterWrapper, the status the logging middleware reads from
\* Status() after Next() is the status the client receives, the code of the
\* first WriteHeader (200 when a Write came first or nothing was written).
C16_StatusIsFirstWriteHeader ==
    \A r \in Requests :
        (adapter = "std" /\ phase[r] = "done" /\ handlers[r] = <<"logging", "h_writes">>)
        => /\ logs[r] # <<>>
           /\ Logged(r).statusCode = ClientStatus(resp[r])

\* C18: for a request whose path is an entry of LoggingConfig.SkipPaths the
\* logging middleware of either adapter emits no log record, to the console
\* or to the remote endpoint, and the downstream chain still runs.
C18_SkippedPathNotLogged ==
    \A r \in Requests :
        (\E n \in DOMAIN LoggingConfig.skipPaths : request[r].path = LoggingConfig.skipPaths[n])
        => logs[r] = <<>>

----------------------------------------------------------------------------
\* Requests that match no route or not the route's method, on a server with
\* the error handler in front and NoRoute and NoMethod called with custom
\* handlers, without handlers, or not at all.

CustomHandlers == <<"m_next", "h_plain">>

InitNoRoute ==
    /\ NoRequests
    /\ authCfg = NilConfig /\ setupPanic = FALSE
    /\ adapter \in {"std", "gin"}
    /\ middleware \in {<<"errh">>, <<"errh", "m_next">>}
    /\ routes = IF adapter = "gin" THEN middleware \o <<"h_plain">> ELSE <<"h_plain">>
    /\ noRoute \in {<<>>, NoRouteHandlers(<<>>), NoRouteHandlers(CustomHandlers)}
    /\ noMethod \in {<<>>, NoMethodHandlers(<<>>), NoMethodHandlers(CustomHandlers)}
    /\ serving = TRUE
    /\ live = {1}
    /\ logCfg = LoggingConfig /\ builder = NewServerBuilder /\ lambdaResult = NotCalled /\ created = Created(adapter, DefaultPort)
    /\ groupMiddleware = <<>>
    /\ skipCall = NoSkipCall

RouteRequests ==
    {[path |-> p, method |-> m, auth |-> NoHeader, id |-> "a"] :
        p \in {"/api", "/missing"}, m \in {"GET", "POST"}}

NextNoRoute ==
    \/ \E r \in Requests, req \in RouteRequests : ServeHTTP(r, req)
    \/ \E r \in Requests : NextInvoke(r)
    \/ \E r \in Requests : NextReturn(r)
    \/ \E r \in Requests : HandlerNext(r)
    \/ \E r \in Requests : HandlerJSON(r)
    \/ \E r \in Requests : HandlerReturn(r)
    \/ \E r \in Requests : ErrorHandlerEnter(r)
    \/ \E r \in Requests : ErrorHandlerExit(r)
    \/ \E r \in Requests : DefaultNoRoute(r)
    \/ \E r \in Requests : GinServeError(r)

SpecNoRoute == InitNoRoute /\ [][NextNoRoute]_vars

\* The request of r is for an unknown route, or for the route with another method.
UnknownRoute(r) == phase[r] # "idle" /\ request[r].path # RoutePath
WrongMethod(r) == phase[r] # "idle" /\ request[r].path = RoutePath /\ Method(request[r]) # RouteMethod

\* The response of r is the error envelope of this status and message.
Envelope(r, code, msg) ==
    /\ ClientStatus(resp[r]) = code
    /\ \E p \in DOMAIN resp[r] : resp[r][p] = [op |-> "body", code |-> code, msg |-> msg]

\* C25: with the error handler installed and NoRoute() and NoMethod() called
\* without handlers, a request for an unknown route is answered with a 404
\* error envelope and a request with another method than the route's with a
\* 405 error envelope, on the std adapter as on the gin adapter.
C25_Default404And405 ==
    \A r \in Requests :
        (phase[r] = "done" /\ noRoute = NoRouteHandlers(<<>>) /\ noMethod = NoMethodHandlers(<<>>)) =>
            /\ UnknownRoute(r) => Envelope(r, StatusNotFound, "route not found")
            /\ WrongMethod(r) => Envelope(r, StatusMethodNotAllowed, "method not allowed for path")

\* The handlers invoked for r, in order.
Invoked(r) == [n \in 1..Len(Calls(r)) |-> handlers[r][Calls(r)[n].h + 1]]

\* C26: on the std adapter with custom NoMethod (resp. NoRoute) handlers, a
\* request with another method than the route's (resp. for an unknown route)
\* runs all global middleware in registration order and then the NoMethod
\* (resp. NoRoute) handlers.
C26_CustomHandlersBehindMiddleware ==
    \A r \in Requests : (adapter = "std" /\ phase[r] = "done") =>
        /\ (WrongMethod(r) /\ noMethod = CustomHandlers) => Invoked(r) = middleware \o noMethod
        /\ (UnknownRoute(r) /\ noRoute = CustomHandlers) => Invoked(r) = middleware \o noRoute

----------------------------------------------------------------------------
\* Requests with and without Origin, preflight or not, through a
\* CORSMiddleware in front of the route.

InitCORS ==
    /\ NoRequests
    /\ authCfg = NilConfig
    /\ setupPanic = FALSE
    /\ noRoute = <<>>
    /\ noMethod \in {<<>>, <<"h_plain">>}
    /\ logCfg = LoggingConfig
    /\ adapter \in {"std", "gin"}
    /\ middleware \in {<<k>> : k \in CORSKinds} \cup {<<"m_next", k>> : k \in CORSKinds}
    /\ routes = IF adapter = "gin" THEN middleware \o <<"h_plain">> ELSE <<"h_plain">>
    /\ serving = TRUE
    /\ live = {1}
    /\ builder = NewServerBuilder /\ lambdaResult = NotCalled /\ created = Created(adapter, DefaultPort)
    /\ groupMiddleware = <<>>
    /\ skipCall = NoSkipCall

Origins == {"", "http://x.com", "http://evil.com"}

CORSRequests ==
    {[path |-> "/api", method |-> m, origin |-> o, auth |-> NoHeader, id |-> "a"] :
        m \in {"GET", "OPTIONS"}, o \in Origins}

NextCORS ==
    \/ \E r \in Requests, req \in CORSRequests : ServeHTTP(r, req)
    \/ \E r \in Requests : GinServeError(r)
    \/ \E r \in Requests : NextInvoke(r)
    \/ \E r \in Requests : NextReturn(r)
    \/ \E r \in Requests : HandlerNext(r)
    \/ \E r \in Requests : HandlerJSON(r)
    \/ \E r \in Requests : HandlerReturn(r)
    \/ \E r \in Requests : CORSMiddleware(r)

SpecCORS == InitCORS /\ [][NextCORS]_vars

\* The CORS middleware of r's chain, once it has returned.
CORSAt(r, h) == h + 1 \in DOMAIN handlers[r] /\ handlers[r][h + 1] \in CORSKinds
CORSReturned(r, h) == CORSAt(r, h) /\ \E p \in Events(r) : IsEv(r, p, "ret") /\ trace[r][p].h = h

\* The values of a response header of r.
HeaderValues(r, name) == {h[2] : h \in {x \in headers[r] : x[1] = name}}
CORSHeaderNames ==
    {"Access-Control-Allow-Origin", "Access-Control-Allow-Methods", "Access-Control-Allow-Headers",
     "Access-Control-Allow-Credentials", "Access-Control-Max-Age"}
NoCORSHeader(r) == \A name \in CORSHeaderNames : HeaderValues(r, name) = {}

\* C27: for a request with an Origin, CORSMiddleware emits
\* Access-Control-Allow-Origin equal to the origin when an allow-list holds
\* it, "*" when no list is configured, and no CORS header at all when the
\* list does not hold the origin; a request without Origin gets no CORS
\* header and the chain continues unchanged.
C27_AllowOriginByList ==
    \A r \in Requests : \A h \in 0..(MaxChain - 1) : CORSReturned(r, h) =>
        LET list == CORSConfig(handlers[r][h + 1]).allowedDomains
            origin == Origin(request[r])
        IN /\ (origin # "" /\ list = <<>>) => HeaderValues(r, "Access-Control-Allow-Origin") = {"*"}
           /\ (origin # "" /\ list # <<>> /\ \E n \in DOMAIN list : list[n] = origin)
                 => HeaderValues(r, "Access-Control-Allow-Origin") = {origin}
           /\ (origin # "" /\ list # <<>> /\ \A n \in DOMAIN list : list[n] # origin) => NoCORSHeader(r)
           /\ origin = "" => /\ NoCORSHeader(r)
                             /\ \A p \in Events(r) : ~(IsEv(r, p, "abort") /\ trace[r][p].h = h)
                             /\ phase[r] = "done" => Invoked(r) = handlers[r]

\* An origin of the allow-list got itself as Allow-Origin.
C27_Witness ==
    \E r \in Requests : \E h \in 0..(MaxChain - 1) :
        /\ CORSReturned(r, h) /\ handlers[r][h + 1] = "cors_list"
        /\ HeaderValues(r, "Access-Control-Allow-Origin") = {"http://x.com"}

\* A preflight request: OPTIONS with an origin that the CORS middleware
\* registered on the server allows.
IsPreflight(r) ==
    /\ phase[r] # "idle"
    /\ Method(request[r]) = "OPTIONS"
    /\ Origin(request[r]) # ""
    /\ \E n \in DOMAIN middleware :
          /\ middleware[n] \in CORSKinds
          /\ AllowOrigin(CORSConfig(middleware[n]), Origin(request[r])) # ""

\* C28: an OPTIONS request with an allowed Origin is answered 200 by
\* CORSMiddleware, which aborts the chain: no handler behind it, the route
\* handler included, runs.
C28_PreflightAborts ==
    \A r \in Requests : (IsPreflight(r) /\ phase[r] = "done") =>
        /\ ClientStatus(resp[r]) = StatusOK
        /\ \E h \in 0..(MaxChain - 1) :
              /\ CORSReturned(r, h)
              /\ \A p \in Events(r) : ~(IsEv(r, p, "call") /\ trace[r][p].h > h)

\* A preflight request of a server without NoMethod handlers is over.
C28_Counterexample ==
    \E r \in Requests :
        /\ IsPreflight(r) /\ phase[r] = "done"
        /\ adapter = "std" /\ noMethod = <<>>
        /\ ClientStatus(resp[r]) = StatusMethodNotAllowed
        /\ NoCORSHeader(r)

\* Where CORSMiddleware is invoked for a preflight request, it sets status
\* 200 and no handler behind it runs.
PreflightAbortsWhereInvoked ==
    \A r \in Requests : \A h \in 0..(MaxChain - 1) :
        (CORSReturned(r, h) /\ IsPreflight(r)
            /\ AllowOrigin(CORSConfig(handlers[r][h + 1]), Origin(request[r])) # "")
        => /\ \E p \in DOMAIN resp[r] : resp[r][p] = [op |-> "hdr", code |-> StatusOK, msg |-> ""]
           /\ \A p \in Events(r) : ~(IsEv(r, p, "call") /\ trace[r][p].h > h)

----------------------------------------------------------------------------
\* Requests through AuthMiddleware.

\* The segments of a token: a header and a payload, decodable or not, and a
\* signature segment carrying the bytes it decodes to.
JWTHeader(alg) == [b64 |-> TRUE, alg |-> alg]
JWTPayload(sub, exp) == [b64 |-> TRUE, sub |-> sub, exp |-> exp]
Undecodable(seg) == [seg EXCEPT !.b64 = FALSE]
JWTSignature(bytes) == [b64 |-> TRUE, bytes |-> bytes]

\* A token whose signature is the HMAC of its own header and payload under key.
Signed(h, p, key) == Cred("jwt", <<h, p, JWTSignature(CreateHmacSignature(<<h, p>>, key))>>)

\* The header's alg: HS256, another algorithm, or no string alg at all.
Algs == {"HS256", "none", ""}
Expiries == {<<>>, <<50>>, <<100>>, <<150>>}

Tokens ==
    {Signed(JWTHeader(a), JWTPayload(sub, <<>>), k) : a \in Algs, sub \in {"alice", "bob", "eve"}, k \in {"k1"}}
        \cup {Signed(JWTHeader(a), JWTPayload("alice", e), k) : a \in {"HS256", "none"}, e \in Expiries, k \in {"k1", "k2"}}
        \cup {Cred("jwt", <<JWTHeader("HS256"), JWTPayload("alice", e),
                             JWTSignature(CreateHmacSignature(<<JWTHeader("HS256"), JWTPayload("eve", e)>>, "k1"))>>) :
                    e \in {<<>>, <<150>>}}
        \cup {Cred("jwt", <<JWTHeader("HS256"), JWTPayload("alice", <<>>),
                             Undecodable(JWTSignature(CreateHmacSignature(<<>>, "")))>>),
              Cred("jwt", <<Undecodable(JWTHeader("HS256")), JWTPayload("alice", <<>>),
                             JWTSignature(CreateHmacSignature(<<Undecodable(JWTHeader("HS256")), JWTPayload("alice", <<>>)>>, "k1"))>>),
              Cred("jwt", <<JWTHeader("HS256"), Undecodable(JWTPayload("alice", <<>>)),
                             JWTSignature(CreateHmacSignature(<<JWTHeader("HS256"), Undecodable(JWTPayload("alice", <<>>))>>, "k1"))>>),
              Cred("jwt", <<JWTHeader("HS256"), JWTPayload("alice", <<>>)>>)}

Creds ==
    {Cred("b64", <<"alice", "secret">>), Cred("b64", <<"alice", "wrong">>),
     Cred("b64", <<"bob", "secret">>), Cred("b64", <<"alice">>), NoCred,
     Cred("jwt", <<"alice">>)}
        \cup {Signed(JWTHeader("HS256"), JWTPayload(sub, <<>>), "k1") : sub \in {"alice", "bob", "eve"}}

AuthHeaders ==
    {NoHeader, Header(1, "Basic", NoCred)}
        \cup {Header(2, sch, c) : sch \in {"Basic", "Bearer"}, c \in Creds}

AuthRequests ==
    {[path |-> p, auth |-> NoHeader, id |-> "a"] : p \in {"/health", "/public/logo", "/user/7"}}
        \cup {[path |-> "/api", auth |-> h, id |-> "a"] : h \in AuthHeaders}

AuthChainKinds == AuthKinds \cup {"h_plain", "m_next"}

NextAuth ==
    \/ \E k \in AuthChainKinds : Use(k)
    \/ \E hs \in RouteLists(AuthChainKinds) : RegisterRoute(hs)
    \/ Run
    \/ \E r \in Requests, req \in AuthRequests : HandleHTTP(r, req)
    \/ \E r \in Requests : NextInvoke(r)
    \/ \E r \in Requests : NextReturn(r)
    \/ \E r \in Requests : HandlerNext(r)
    \/ \E r \in Requests : HandlerJSON(r)
    \/ \E r \in Requests : HandlerReturn(r)
    \/ \E r \in Requests : AuthMiddleware(r)

SpecAuth == Init /\ [][NextAuth]_vars

\* C2: once AuthMiddleware has answered a request with 401 or 403, no handler
\* positioned after it in the chain is invoked, so a handler behind the
\* middleware runs only for requests it let through.
C2_RejectedNeverReachesHandler ==
    \A r \in Requests : adapter = "std" =>
        \A p \in Events(r), q \in Events(r) :
            (p < q /\ IsEv(r, p, "reject"))
                => ~(IsEv(r, q, "call") /\ trace[r][q].h > trace[r][p].h)

\* The handler at event p of r is an AuthMiddleware.
IsAuthAt(r, p) == handlers[r][trace[r][p].h + 1] \in AuthKinds

\* C17: a request whose path matches an entry of AuthConfig.SkipPaths, exactly,
\* by a "*" glob or by a ":param" pattern, passes AuthMiddleware without an
\* Authorization header: the middleware rejects no such request.
C17_SkippedPathNotAuthenticated ==
    \A r \in Requests : \A p \in Events(r) :
        (/\ IsEv(r, p, "reject") /\ IsAuthAt(r, p))
        => ~IsSkipPaths(request[r].path, AuthConfig(handlers[r][trace[r][p].h + 1]).skipPaths)

----------------------------------------------------------------------------
\* Bearer tokens through a JWT AuthMiddleware in front of one route handler,
\* alone or behind another middleware.

JWTChains == {<<"auth_jwt">>, <<"auth_basic", "auth_jwt">>, <<"m_next", "auth_jwt">>}

InitJWT ==
    /\ NoRequests
    /\ adapter \in {"std", "gin"}
    /\ middleware \in JWTChains
    /\ routes = IF adapter = "gin" THEN middleware \o <<"h_plain">> ELSE <<"h_plain">>
    /\ serving = TRUE
    /\ live = {1}
    /\ NoSetup

JWTRequests ==
    {[path |-> "/api", auth |-> Header(2, "Bearer", t), id |-> "a"] : t \in Tokens}
        \cup {[path |-> "/health", id |-> "a",
                auth |-> Header(2, "Bearer", Signed(JWTHeader("none"), JWTPayload("alice", <<>>), "k2"))]}

NextJWT ==
    \/ \E r \in Requests, req \in JWTRequests : HandleHTTP(r, req)
    \/ \E r \in Requests : NextInvoke(r)
    \/ \E r \in Requests : NextReturn(r)
    \/ \E r \in Requests : HandlerNext(r)
    \/ \E r \in Requests : HandlerJSON(r)
    \/ \E r \in Requests : HandlerReturn(r)
    \/ \E r \in Requests : AuthMiddleware(r)

SpecJWT == InitJWT /\ [][NextJWT]_vars

----------------------------------------------------------------------------
\* Credentials of either kind through one AuthMiddleware in front of a
\* protected route whose handler reads the user.

InitLookup ==
    /\ NoRequests
    /\ adapter \in {"std", "gin"}
    /\ middleware \in {<<k>> : k \in AuthKinds}
    /\ routes = IF adapter = "gin" THEN middleware \o <<"h_profile">> ELSE <<"h_profile">>
    /\ serving = TRUE
    /\ live = {1}
    /\ NoSetup

LookupUsers == {"alice", "bob", "carol", "eve"}

LookupCreds ==
    {Cred("b64", <<u, pw>>) : u \in LookupUsers, pw \in {"secret", "wrong"}}
        \cup {Cred("b64", <<"alice">>), NoCred}
        \cup {Signed(JWTHeader("HS256"), JWTPayload(u, e), k) :
                    u \in LookupUsers, e \in {<<>>, <<50>>}, k \in {"k1", "k2"}}

LookupRequests ==
    {[path |-> p, auth |-> Header(2, sch, c), id |-> "a"] :
        p \in {"/api", "/health"}, sch \in {"Basic", "Bearer"}, c \in LookupCreds}
        \cup {[path |-> "/api", auth |-> NoHeader, id |-> "a"]}

NextLookup ==
    \/ \E r \in Requests, req \in LookupRequests : HandleHTTP(r, req)
    \/ \E r \in Requests : NextInvoke(r)
    \/ \E r \in Requests : NextReturn(r)
    \/ \E r \in Requests : AuthMiddleware(r)
    \/ \E r \in Requests : ProfileHandler(r)

SpecLookup == InitLookup /\ [][NextLookup]_vars

\* What the lookup collaborator of AuthMiddleware kind returns for the
\* credentials of r when they reach it: for Basic a decoded user:password
\* pair, for JWT the claims of a token signed with the secret and not expired.
ReachesLookup(r, kind) ==
    /\ request[r].auth.n = 2
    /\ \A n \in DOMAIN AuthConfig(kind).skipPaths : request[r].path # AuthConfig(kind).skipPaths[n]
    /\ IF kind = "auth_basic"
       THEN /\ request[r].auth.scheme = "Basic"
            /\ request[r].auth.cred.enc = "b64"
            /\ Len(request[r].auth.cred.parts) = 2
       ELSE /\ request[r].auth.scheme = "Bearer"
            /\ request[r].auth.cred.enc = "jwt"
            /\ Len(request[r].auth.cred.parts) = 3
            /\ request[r].auth.cred.parts[1] = JWTHeader("HS256")
            /\ request[r].auth.cred.parts[2].b64
            /\ request[r].auth.cred.parts[3] =
                   JWTSignature(CreateHmacSignature(<<request[r].auth.cred.parts[1], request[r].auth.cred.parts[2]>>, "k1"))
            /\ request[r].auth.cred.parts[2].exp = <<>> \/ request[r].auth.cred.parts[2].exp[1] >= Now
LookupResult(r, kind) ==
    IF kind = "auth_basic"
    THEN LookupUserByBasicAuth(request[r].auth.cred.parts[1], request[r].auth.cred.parts[2])
    ELSE LookupUserByJWT(request[r].auth.cred.parts[2])

\* This step is an AuthMiddleware at work on r: the request carries
\* credentials of the configured scheme on a path that is not skipped.
ChecksCredentials(r) ==
    /\ Running(r) /\ Top(r).k = "h" /\ Top(r).kind \in AuthKinds
    /\ trace'[r] # trace[r]
    /\ request[r].auth.n = 2
    /\ request[r].auth.scheme = (IF Top(r).kind = "auth_basic" THEN "Basic" ELSE "Bearer")
    /\ \A n \in DOMAIN AuthConfig(Top(r).kind).skipPaths :
           request[r].path # AuthConfig(Top(r).kind).skipPaths[n]

\* The step writes exactly SetStatus(code), JSON(code, msg).
AnswersWith(r, code, msg) ==
    resp'[r] = resp[r] \o <<[op |-> "hdr", code |-> code, msg |-> ""],
                             [op |-> "hdr", code |-> code, msg |-> ""],
                             [op |-> "body", code |-> code, msg |-> msg]>>

\* C21: when the lookup collaborator returns an error, AuthMiddleware
\* answers 403 with ForbiddenMessage if and only if the error is or wraps
\* ErrForbidden, and 401 with UnauthorizedMessage for every other lookup
\* error and for every credential-parsing or token-validation error.
C21_ForbiddenOnlyForErrForbidden ==
    [][\A r \in Requests : ChecksCredentials(r) =>
          LET kind == Top(r).kind
              cfg == AuthConfig(kind)
          IN IF ~ReachesLookup(r, kind)
             THEN AnswersWith(r, StatusUnauthorized, cfg.unauthorizedMessage)
             ELSE LET res == LookupResult(r, kind)
                  IN /\ res.err \in {"forbidden", "account locked: forbidden"}
                          => AnswersWith(r, StatusForbidden, cfg.forbiddenMessage)
                     /\ res.err \in {"wrong password", "unknown user"}
                          => AnswersWith(r, StatusUnauthorized, cfg.unauthorizedMessage)
                     /\ res.err = "nil" => resp'[r] = resp[r]]_vars

\* A lookup error that wraps ErrForbidden was answered 403.
C21_Witness ==
    \E r \in Requests :
        /\ \E k \in AuthKinds : handlers[r] # <<>> /\ handlers[r][1] = k /\ ReachesLookup(r, k)
                                  /\ LookupResult(r, k).err = "account locked: forbidden"
        /\ \E p \in DOMAIN resp[r] : resp[r][p] = [op |-> "body", code |-> StatusForbidden, msg |-> "Forbidden"]

\* The user the AuthMiddleware at the head of r's chain stores: the one a
\* successful lookup returns, none otherwise.
StoredUser(r) ==
    IF handlers[r] # <<>> /\ handlers[r][1] \in AuthKinds
          /\ ReachesLookup(r, handlers[r][1]) /\ LookupResult(r, handlers[r][1]).err = "nil"
    THEN LookupResult(r, handlers[r][1]).user
    ELSE "none"

\* The AuthMiddleware at the head of r's chain has returned.
AuthReturned(r) == \E p \in Events(r) : IsEv(r, p, "ret") /\ trace[r][p].h = 0

\* C22: after a successful lookup returning user u, every handler that runs
\* later in the request obtains (u, true) from GetUserFromContext; on a
\* skip-listed path and on a rejected request no user is stored and
\* GetUserFromContext returns (nil, false).
C22_UserStoredForLaterHandlers ==
    \A r \in Requests : AuthReturned(r) =>
        /\ GetUserFromContext(r) = [user |-> StoredUser(r), ok |-> StoredUser(r) # "none"]
        /\ \A p \in DOMAIN resp[r] :
              (resp[r][p].op = "body" /\ resp[r][p].code = StatusOK) => resp[r][p].msg = StoredUser(r)
        /\ (phase[r] = "done" /\ StoredUser(r) # "none")
              => \E p \in DOMAIN resp[r] : resp[r][p] = [op |-> "body", code |-> StatusOK, msg |-> StoredUser(r)]

\* The protected handler has answered with the user alice of a Bearer token.
C22_Witness ==
    \E r \in Requests :
        /\ request[r].auth.scheme = "Bearer"
        /\ StoredUser(r) = "alice"
        /\ phase[r] = "done"
        /\ \E p \in DOMAIN resp[r] : resp[r][p] = [op |-> "body", code |-> StatusOK, msg |-> "alice"]

----------------------------------------------------------------------------
\* Set-up of a server with an AuthMiddleware built from any configuration,
\* then requests for the protected route.

AuthConfigs ==
    {NilConfig} \cup
    {[DefaultAuthConfig EXCEPT !.authType = t, !.userLookup = ul, !.basicAuthLookup = bl,
                               !.jwtLookup = jl, !.jwtSecret = k] :
        t \in {"basic", "jwt", "", "oauth"}, ul \in BOOLEAN, bl \in BOOLEAN, jl \in BOOLEAN,
        k \in {"", "k1"}}

SetupRequests ==
    {[path |-> "/api", auth |-> h, id |-> "a"] :
        h \in {NoHeader,
               Header(2, "Basic", Cred("b64", <<"alice", "secret">>)),
               Header(2, "Basic", Cred("b64", <<"alice">>)),
               Header(2, "Bearer", Signed(JWTHeader("HS256"), JWTPayload("alice", <<>>), "k1")),
               Header(2, "Bearer", Signed(JWTHeader("HS256"), JWTPayload("alice", <<>>), "k2"))}}

NextSetup ==
    \/ \E config \in AuthConfigs : UseAuth(config)
    \/ RegisterRoute(<<"h_profile">>)
    \/ Run
    \/ \E r \in Requests, req \in SetupRequests : HandleHTTP(r, req)
    \/ \E r \in Requests : NextInvoke(r)
    \/ \E r \in Requests : NextReturn(r)
    \/ \E r \in Requests : AuthMiddleware(r)
    \/ \E r \in Requests : ProfileHandler(r)

SpecSetup == Init /\ [][NextSetup]_vars

\* The configurations AuthMiddleware must refuse: JWT without a secret, no
\* lookup for the selected type, a type that is neither basic nor jwt, and nil.
MustFail(config) ==
    \/ config.nil
    \/ ~config.nil /\ config.authType \notin {"basic", "jwt"}
    \/ ~config.nil /\ config.authType = "jwt" /\ config.jwtSecret = ""
    \/ ~config.nil /\ config.authType = "jwt" /\ ~config.jwtLookup /\ ~config.userLookup
    \/ ~config.nil /\ config.authType = "basic" /\ ~config.basicAuthLookup /\ ~config.userLookup

\* AuthMiddleware has been called at set-up.
AuthBuilt == setupPanic \/ middleware # <<>>

HasBearer(r) == request[r].auth.n = 2 /\ request[r].auth.scheme = "Bearer"
Token(r) == request[r].auth.cred
ThreeSegments(cred) == cred.enc = "jwt" /\ Len(cred.parts) = 3

\* The header decodes and its alg is not "HS256" (or is no string).
AlgNotHS256(cred) ==
    ThreeSegments(cred) /\ cred.parts[1].b64 /\ cred.parts[1].alg # "HS256"

\* The signature segment decodes to the HMAC-SHA256 of the first two segments
\* under the configured secret.
ValidSignature(cred) ==
    /\ ThreeSegments(cred)
    /\ cred.parts[3].b64
    /\ cred.parts[3].bytes = CreateHmacSignature(<<cred.parts[1], cred.parts[2]>>, AuthConfig("auth_jwt").jwtSecret)

\* This step is the JWT AuthMiddleware at work on r, on a path it does not skip.
Authenticates(r) ==
    /\ Running(r) /\ Top(r).k = "h" /\ Top(r).kind = "auth_jwt"
    /\ trace'[r] # trace[r]
    /\ \A n \in DOMAIN AuthConfig("auth_jwt").skipPaths :
           request[r].path # AuthConfig("auth_jwt").skipPaths[n]

\* The step answers 401, which is the response's status unless a handler in
\* front of the middleware has written one, and calls no lookup.
Answers401(r) ==
    /\ Len(resp'[r]) > Len(resp[r])
    /\ \A p \in (Len(resp[r]) + 1)..Len(resp'[r]) : resp'[r][p].code = StatusUnauthorized
    /\ resp[r] = <<>> => ClientStatus(resp'[r]) = StatusUnauthorized
NoLookup(r) ==
    \A p \in (Len(trace[r]) + 1)..Len(trace'[r]) : trace'[r][p].ev # "lookup"

\* r was rejected by a JWT AuthMiddleware.
RejectedByJWT(r) ==
    \E p \in Events(r) : IsEv(r, p, "reject") /\ handlers[r][trace[r][p].h + 1] = "auth_jwt"

\* C19: a three-segment Bearer token whose decoded header has an alg other
\* than "HS256", or no string alg, is rejected by the JWT AuthMiddleware that
\* authenticates it, whatever its signature segment is, a correct HMAC-SHA256
\* under the configured secret included: the answer is 401 and the JWT lookup
\* is not called.
C19_OtherAlgRejected ==
    [][\A r \in Requests :
          (Authenticates(r) /\ HasBearer(r) /\ AlgNotHS256(Token(r)))
          => (Answers401(r) /\ NoLookup(r))]_vars

C19_Witness ==
    \E r \in Requests :
        /\ HasBearer(r) /\ AlgNotHS256(Token(r)) /\ ValidSignature(Token(r))
        /\ RejectedByJWT(r)

\* C20: a Bearer token whose signature segment does not decode to the
\* HMAC-SHA256 of segment0 "." segment1 under the configured secret is
\* answered 401 by the JWT AuthMiddleware that authenticates it, and the JWT
\* lookup is not called, whatever the claims and their exp are.
C20_BadSignatureRejected ==
    [][\A r \in Requests :
          (Authenticates(r) /\ HasBearer(r) /\ ~ValidSignature(Token(r)))
          => (Answers401(r) /\ NoLookup(r))]_vars

C20_Witness ==
    \E r \in Requests :
        /\ HasBearer(r) /\ ThreeSegments(Token(r)) /\ ~ValidSignature(Token(r))
        /\ Token(r).parts[1] = JWTHeader("HS256")
        /\ Token(r).parts[2] = JWTPayload("alice", <<150>>)
        /\ Token(r).parts[3].b64
        /\ RejectedByJWT(r)

----------------------------------------------------------------------------
\* Concurrent requests through DuplicateRequestMiddleware, on a std server
\* set up with the middleware in front of one route handler.

InitDup ==
    /\ NoRequests
    /\ adapter = "std"
    /\ middleware = <<"dup">>
    /\ routes = <<"h_plain">>
    /\ serving = TRUE
    /\ live = Requests
    /\ NoSetup

DupRequests == {[path |-> "/api/orders", auth |-> NoHeader, id |-> i] : i \in {"a", "b"}}

NextDup ==
    \/ \E r \in Requests, req \in DupRequests : HandleHTTP(r, req)
    \/ \E r \in Requests : NextInvoke(r)
    \/ \E r \in Requests : NextReturn(r)
    \/ \E r \in Requests : HandlerJSON(r)
    \/ \E r \in Requests : HandlerReturn(r)
    \/ \E r \in Requests, ok \in BOOLEAN : DupGenerate(r, ok)
    \/ \E r \in Requests, ok \in BOOLEAN : DupCheck(r, ok)
    \/ \E r \in Requests, ok \in BOOLEAN : DupSave(r, ok)
    \/ \E r \in Requests : DupReturn(r)

SpecDup == InitDup /\ [][NextDup]_vars

SameID(r1, r2) ==
    /\ r1 # r2
    /\ phase[r1] # "idle" /\ phase[r2] # "idle"
    /\ GenerateRequestID(request[r1]) = GenerateRequestID(request[r2])

\* The middleware continued the chain for request r.
Passed(r) == HasEv(r, "saved")

FirstOp(r, op) ==
    LET at == {p \in DOMAIN resp[r] : resp[r][p].op = op}
    IN IF at = {} THEN [op |-> op, code |-> 0, msg |-> ""]
       ELSE resp[r][CHOOSE p \in at : \A q \in at : p <= q]

\* The only two requests with their ID, the second arrived when the first
\* was over, no collaborator failed, and both are over.
OneAfterTheOther(r1, r2) ==
    /\ SameID(r1, r2) /\ r1 \in before[r2]
    /\ \A q \in Requests \ {r1, r2} : ~SameID(q, r1)
    /\ ~HasEv(r1, "fail") /\ ~HasEv(r2, "fail")
    /\ phase[r2] = "done"

\* C8: of two requests with one ID processed one after the other, with no
\* collaborator failing, the first is saved and continued and the second is
\* answered 409 with the configured ConflictMessage.
C8_SecondGets409 ==
    \A r1 \in Requests, r2 \in Requests :
        OneAfterTheOther(r1, r2)
        => /\ Passed(r1) /\ GenerateRequestID(request[r1]) \in store
           /\ ~Passed(r2)
           /\ FirstOp(r2, "hdr").code = StatusConflict
           /\ FirstOp(r2, "body") = [op |-> "body", code |-> StatusConflict, msg |-> ConflictMessage]

\* A state of C8: two requests processed one after the other.
C8_Witness == \E r1 \in Requests, r2 \in Requests : OneAfterTheOther(r1, r2)

\* C9: once the middleware has rejected a request (409 or 500), no handler
\* positioned after it in the chain is invoked for that request.
C9_RejectedNeverReachesHandler ==
    \A r \in Requests :
        \A p \in Events(r), q \in Events(r) :
            (p < q /\ IsEv(r, p, "reject"))
                => ~(IsEv(r, q, "call") /\ trace[r][q].h > trace[r][p].h)

\* The responses DuplicateRequestMiddleware gives on its own.
DupResponses ==
    {<<StatusInternalServerError, "Failed to generate request ID">>,
     <<StatusInternalServerError, "Failed to check request ID">>,
     <<StatusInternalServerError, "Failed to save request ID">>,
     <<StatusConflict, ConflictMessage>>}

\* The response of r is the single JSON call with this status and message.
OnlyResponse(r, code, msg) ==
    resp[r] = <<[op |-> "hdr", code |-> code, msg |-> ""], [op |-> "body", code |-> code, msg |-> msg]>>

\* C24: each outcome of the collaborators gives exactly one response: a
\* failing generator, check or save gives the 500 of that call, a positive
\* check gives 409 with the conflict message, and the chain behind the
\* middleware runs only when all three calls succeeded with a negative check.
C24_OneResponsePerOutcome ==
    \A r \in Requests : phase[r] = "done" =>
        IF Passed(r)
        THEN /\ ~HasEv(r, "fail") /\ ~HasEv(r, "conflict")
             /\ OnlyResponse(r, StatusOK, "ok")
        ELSE /\ HasEv(r, "fail") \/ HasEv(r, "conflict")
             /\ \E d \in DupResponses :
                    /\ OnlyResponse(r, d[1], d[2])
                    /\ d[1] = StatusConflict <=> HasEv(r, "conflict")
             /\ \A p \in Events(r) : ~(IsEv(r, p, "call") /\ trace[r][p].h > 0)

----------------------------------------------------------------------------
\* Requests through TimeoutMiddleware, on a std server set up with the
\* middleware, alone or behind the error handler, in front of the route.

TimeoutChains == {<<"timeout">>, <<"errh", "timeout">>}
TimeoutRoutes == {<<"h_plain">>, <<"m_next", "h_plain">>, <<"h_panic">>}

InitTimeout ==
    /\ NoRequests
    /\ adapter = "std"
    /\ middleware \in TimeoutChains
    /\ routes \in TimeoutRoutes
    /\ serving = TRUE
    /\ live = {1}
    /\ NoSetup

NextTimeout ==
    \/ \E r \in Requests : HandleHTTP(r, PlainRequest)
    \/ \E r \in Requests : NextInvoke(r)
    \/ \E r \in Requests : NextReturn(r)
    \/ \E r \in Requests : HandlerNext(r)
    \/ \E r \in Requests : HandlerJSON(r)
    \/ \E r \in Requests, v \in PanicValues : HandlerPanic(r, v)
    \/ \E r \in Requests : HandlerReturn(r)
    \/ \E r \in Requests : ErrorHandlerEnter(r)
    \/ \E r \in Requests : ErrorHandlerExit(r)
    \/ \E r \in Requests : Recover(r)
    \/ \E r \in Requests : Unwind(r)
    \/ \E r \in Requests : TimeoutEnter(r)
    \/ \E r \in Requests : DeferredSelect(r)
    \/ \E r \in Requests : DeferredSend(r)
    \/ \E r \in Requests : TimeoutFires(r)
    \/ \E r \in Requests : WatcherSelect(r)
    \/ \E r \in Requests : WatcherWriteHeader(r)
    \/ \E r \in Requests : WatcherWrite(r)
    \/ \E r \in Requests : WatcherSend(r)

SpecTimeout == InitTimeout /\ [][NextTimeout]_vars

\* A write of the timeout goroutine.
IsTimeoutWrite(x) ==
    /\ x.code = StatusServiceUnavailable
    /\ x.op = "body" => x.msg = TimeoutMessage

\* C10: once the timeout goroutine has answered a request whose handler was
\* still running at the deadline, the response is the 503 and its timeout
\* body alone: no write made after the goroutine's reaches the writer.
C10_OnlyTimeoutResponse ==
    \A r \in Requests :
        \A p \in DOMAIN resp[r], q \in DOMAIN resp[r] :
            (p < q /\ IsTimeoutWrite(resp[r][p])) => IsTimeoutWrite(resp[r][q])

\* Next has returned to the timeout middleware, its deferred completion step
\* has run and the middleware has returned.
Completed(r) ==
    \E p \in DOMAIN trace[r] :
        /\ trace[r][p].ev = "ret"
        /\ handlers[r][trace[r][p].h + 1] = "timeout"

\* The writer received a call in this step, and it is the goroutine's.
WatcherWrote(r) ==
    /\ Len(resp'[r]) > Len(resp[r])
    /\ IsTimeoutWrite(resp'[r][Len(resp'[r])])

\* C11: the goroutine's 503 and the normal completion exclude each other:
\* once the downstream chain has returned and the deferred completion step
\* has run, the goroutine writes nothing to the response writer.
C11_NoTimeoutWriteAfterCompletion ==
    [][\A r \in Requests : Completed(r) => ~WatcherWrote(r)]_vars

----------------------------------------------------------------------------
\* ServerBuilder.

\* A configuration of the caller's.
SomeConfig == [nil |-> FALSE]
CORSOf(kind) == [nil |-> FALSE, kind |-> kind]

\* The configurations WithLogging and WithRemoteLogging make, and the one
\* Build makes for WithDefaultLogging.
WithLoggingConfig ==
    [skipPaths |-> <<>>, loggingToConsole |-> TRUE, loggingToRemote |-> FALSE, remoteURL |-> ""]
WithRemoteLoggingConfig(remoteURL) ==
    [skipPaths |-> <<>>, loggingToConsole |-> TRUE, loggingToRemote |-> TRUE, remoteURL |-> remoteURL]
DefaultLoggingConfig ==
    [skipPaths |-> <<>>, loggingToConsole |-> TRUE, loggingToRemote |-> FALSE, remoteURL |-> ""]

\* Build has been called: it registers NoRoute handlers, the default one
\* when the builder holds none.
Built == noRoute # <<>>

\* A builder method: it sets its field and returns the builder.
BuilderSet(b) ==
    /\ ~Built /\ ~serving /\ ~setupPanic
    /\ builder' = b
    /\ UNCHANGED <<adapter, middleware, routes, serving, live, authCfg, setupPanic, noRoute, noMethod, logCfg, lambdaResult, created, groupMiddleware, skipCall,
                   phase, request, ctxVars, dupVars, toVars>>

AddController(hs) ==
    /\ builder.controllers = <<>>
    /\ BuilderSet([builder EXCEPT !.controllers = Append(@, hs)])
AddMiddleware(kind) ==
    /\ Len(builder.middleware) < MaxCustom
    /\ BuilderSet([builder EXCEPT !.middleware = Append(@, kind)])
WithLogging == BuilderSet([builder EXCEPT !.loggingConfig = WithLoggingConfig])
WithRemoteLogging(remoteURL) ==
    BuilderSet([builder EXCEPT !.loggingConfig = WithRemoteLoggingConfig(remoteURL)])
WithTimeout(timeout) == BuilderSet([builder EXCEPT !.timeoutConfig = timeout])
WithCORS(cors) == BuilderSet([builder EXCEPT !.corsConfig = cors])
WithErrorHandler(errorConfig) == BuilderSet([builder EXCEPT !.errorConfig = errorConfig])
WithDefaultLogging == BuilderSet([builder EXCEPT !.useDefaultLogging = TRUE])
WithDefaultTimeout == BuilderSet([builder EXCEPT !.useDefaultTimeout = TRUE])
WithDefaultCORS == BuilderSet([builder EXCEPT !.useDefaultCORS = TRUE])
WithDefaultErrorHandling == BuilderSet([builder EXCEPT !.useDefaultErrorHandler = TRUE])
WithNoRoute(hs) == BuilderSet([builder EXCEPT !.noRouteHandlers = hs])
WithNoMethod(hs) == BuilderSet([builder EXCEPT !.noMethodHandlers = hs])

\* A Build that registers the logging middleware ahead of the others.
BuildMiddlewareLoggingFirst(b) ==
    (IF b.loggingConfig # NilConfig \/ b.useDefaultLogging THEN <<"logging">> ELSE <<>>)
    \o (IF b.errorConfig # NilConfig \/ b.useDefaultErrorHandler THEN <<"errh">> ELSE <<>>)
    \o (IF b.timeoutConfig # NilConfig \/ b.useDefaultTimeout THEN <<"timeout">> ELSE <<>>)
    \o (IF b.corsConfig # NilConfig THEN <<b.corsConfig.kind>>
        ELSE IF b.useDefaultCORS THEN <<"cors_any">> ELSE <<>>)
    \o b.middleware

\* The Use calls of Build, in their order: for each of the four middleware
\* the configured one, else the default one when it was enabled; then the
\* custom middleware.
BuildMiddleware(b) ==
    (IF b.errorConfig # NilConfig THEN <<"errh">>
     ELSE IF b.useDefaultErrorHandler THEN <<"errh">> ELSE <<>>)
    \o (IF b.timeoutConfig # NilConfig THEN <<"timeout">>
        ELSE IF b.useDefaultTimeout THEN <<"timeout">> ELSE <<>>)
    \o (IF b.corsConfig # NilConfig THEN <<b.corsConfig.kind>>
        ELSE IF b.useDefaultCORS THEN <<"cors_any">> ELSE <<>>)
    \o (IF b.loggingConfig # NilConfig THEN <<"logging">>
        ELSE IF b.useDefaultLogging THEN <<"logging">> ELSE <<>>)
    \o b.middleware

\* Build: a new server, the middleware, the controllers' routes (gin stores
\* a route's handlers behind the middleware used so far), the NoRoute and
\* NoMethod handlers.  No controller of the model asks for its path to be
\* skipped by the logging.
Build ==
    /\ ~Built /\ ~serving /\ ~setupPanic
    /\ middleware = <<>> /\ routes = <<>>
    /\ middleware' = BuildMiddleware(builder)
    /\ logCfg' = IF builder.loggingConfig # NilConfig THEN builder.loggingConfig
                 ELSE IF builder.useDefaultLogging THEN DefaultLoggingConfig
                 ELSE logCfg
    /\ routes' = IF builder.controllers = <<>> THEN <<>>
                 ELSE IF adapter = "gin" THEN middleware' \o builder.controllers[1]
                 ELSE builder.controllers[1]
    /\ noRoute' = NoRouteHandlers(builder.noRouteHandlers)
    /\ noMethod' = NoMethodHandlers(builder.noMethodHandlers)
    /\ UNCHANGED <<adapter, serving, live, authCfg, setupPanic, builder, lambdaResult, created, groupMiddleware, skipCall,
                   phase, request, ctxVars, dupVars, toVars>>

CustomKinds == {"m_next", "m_next2"}
RemoteURLs == {"http://logs"}

NextBuilder ==
    \/ AddController(<<"h_plain">>)
    \/ \E k \in CustomKinds : AddMiddleware(k)
    \/ WithLogging
    \/ \E u \in RemoteURLs : WithRemoteLogging(u)
    \/ WithTimeout(SomeConfig)
    \/ \E k \in CORSKinds : WithCORS(CORSOf(k))
    \/ WithErrorHandler(SomeConfig)
    \/ WithDefaultLogging
    \/ WithDefaultTimeout
    \/ WithDefaultCORS
    \/ WithDefaultErrorHandling
    \/ WithNoRoute(CustomHandlers)
    \/ WithNoMethod(CustomHandlers)
    \/ Build

SpecBuilder == Init /\ [][NextBuilder]_vars

\* The place of a middleware in the documented order.
Rank(kind) ==
    CASE kind = "errh" -> 1
      [] kind = "timeout" -> 2
      [] kind \in CORSKinds -> 3
      [] kind = "logging" -> 4
      [] OTHER -> 5
Count(seq, K) == Cardinality({n \in DOMAIN seq : seq[n] \in K})
IsCustom(kind) == kind \in CustomKinds
Wanted(config, flag) == IF config # NilConfig \/ flag THEN 1 ELSE 0

\* C29: Build registers the middleware in the order error handler, timeout,
\* CORS, logging, then the custom middleware in AddMiddleware order,
\* whatever the order of the builder calls, each configured middleware
\* exactly once; the error handler, when configured, heads the chain.
C29_BuildRegistersInFixedOrder ==
    Built =>
        /\ \A i \in DOMAIN middleware, j \in DOMAIN middleware :
              i < j => /\ Rank(middleware[i]) <= Rank(middleware[j])
                       /\ Rank(middleware[i]) < 5 => Rank(middleware[i]) < Rank(middleware[j])
        /\ SelectSeq(middleware, IsCustom) = builder.middleware
        /\ Count(middleware, {"errh"}) = Wanted(builder.errorConfig, builder.useDefaultErrorHandler)
        /\ Count(middleware, {"timeout"}) = Wanted(builder.timeoutConfig, builder.useDefaultTimeout)
        /\ Count(middleware, CORSKinds) = Wanted(builder.corsConfig, builder.useDefaultCORS)
        /\ Count(middleware, {"logging"}) = Wanted(builder.loggingConfig, builder.useDefaultLogging)
        /\ (Wanted(builder.errorConfig, builder.useDefaultErrorHandler) = 1 /\ routes # <<>>)
              => Chain[1] = "errh"

\* A server was built with the four middleware, configured and enabled by
\* default at once, two custom middleware and a controller.
C29_Witness ==
    /\ Built
    /\ builder.errorConfig # NilConfig /\ builder.useDefaultErrorHandler
    /\ builder.timeoutConfig # NilConfig /\ builder.useDefaultTimeout
    /\ builder.corsConfig # NilConfig /\ builder.useDefaultCORS
    /\ builder.loggingConfig # NilConfig /\ builder.useDefaultLogging
    /\ builder.middleware = <<"m_next2", "m_next">>
    /\ routes # <<>>
    /\ Len(middleware) = 6

----------------------------------------------------------------------------
\* The log records of requests that carry an Authorization header, under
\* every combination of the logging flags and under the configurations the
\* builder makes.

LogConfigs ==
    {[skipPaths |-> <<>>, loggingToConsole |-> c, loggingToRemote |-> t, remoteURL |-> u] :
        c \in BOOLEAN, t \in BOOLEAN, u \in RemoteURLs \cup {""}}
        \cup {WithLoggingConfig} \cup {WithRemoteLoggingConfig(u) : u \in RemoteURLs}

AuthorizationHeaders ==
    {NoHeader, Header(1, "opaque", NoCred), Header(2, "Bearer", Cred("raw", <<"secret">>)),
     Header(2, "Basic", Cred("raw", <<"dXNlcjpwdw">>))}

RemoteRequests == {[path |-> "/", auth |-> a, id |-> "a"] : a \in AuthorizationHeaders}

InitRemote ==
    /\ NoRequests
    /\ authCfg = NilConfig
    /\ setupPanic = FALSE
    /\ noRoute = <<>>
    /\ noMethod = <<>>
    /\ logCfg \in LogConfigs
    /\ adapter \in {"std", "gin"}
    /\ middleware = <<"logging">>
    /\ routes = IF adapter = "gin" THEN middleware \o <<"h_plain">> ELSE <<"h_plain">>
    /\ serving = TRUE
    /\ live = {1}
    /\ builder = NewServerBuilder /\ lambdaResult = NotCalled /\ created = Created(adapter, DefaultPort)
    /\ groupMiddleware = <<>>
    /\ skipCall = NoSkipCall

NextRemote ==
    \/ \E r \in Requests, req \in RemoteRequests : HandleHTTP(r, req)
    \/ \E r \in Requests : NextInvoke(r)
    \/ \E r \in Requests : NextReturn(r)
    \/ \E r \in Requests : HandlerJSON(r)
    \/ \E r \in Requests : HandlerReturn(r)
    \/ \E r \in Requests : LoggingEnter(r)
    \/ \E r \in Requests : LoggingExit(r)

SpecRemote == InitRemote /\ [][NextRemote]_vars

\* The masked forms of an Authorization header: empty, "[MASKED]", or the
\* scheme followed by "[MASKED]".
IsMasked(a) ==
    \/ a.n = 0
    \/ a = Header(1, "[MASKED]", NoCred)
    \/ (a.n = 2 /\ a.cred = Cred("raw", <<"[MASKED]">>))

\* C30: a log record sent to the remote endpoint never carries the
\* unmasked credential of the Authorization header.
C30_RemoteRecordMasked ==
    \A r \in Requests : \A n \in DOMAIN logs[r] :
        logs[r][n].remote => IsMasked(logs[r][n].authorization)

\* Under the configuration of WithRemoteLogging the record sent to the
\* remote endpoint holds the Authorization header as it came.
C30_Counterexample ==
    \E r \in Requests : \E n \in DOMAIN logs[r] :
        /\ logCfg = WithRemoteLoggingConfig("http://logs")
        /\ logs[r][n].remote
        /\ request[r].auth = Header(2, "Bearer", Cred("raw", <<"secret">>))
        /\ logs[r][n].authorization = request[r].auth

\* With console logging off, the record is masked.
MaskedWithoutConsole ==
    \A r \in Requests : \A n \in DOMAIN logs[r] :
        ~logCfg.loggingToConsole => IsMasked(logs[r][n].authorization)

----------------------------------------------------------------------------
\* Context.Error and Context.Errors.

\* A handler of r calls Context.Error in this step.
CallsError(r) == IsScript(r) /\ ScriptOp(r) = "Error" /\ Len(errs'[r]) > Len(errs[r])
IsPrefix(a, b) == Len(a) <= Len(b) /\ SubSeq(b, 1, Len(a)) = a

\* C31: Context.Error(err) appends err at the end of the request's error
\* list and returns the same err, without moving the cursor and without
\* writing a response; the list only grows and Errors() returns the errors
\* in the order they were added.
C31_ErrorAppendsAndReturns ==
    [][\A r \in Requests :
          /\ IsPrefix(Errors(r), Errors(r)')
          /\ CallsError(r) =>
                /\ Len(errs'[r]) = Len(errs[r]) + 1
                /\ returned'[r] = errs'[r][Len(errs'[r])]
                /\ index'[r] = index[r]
                /\ resp'[r] = resp[r]]_vars

\* On gin a handler got back a value that is not the error it passed.
C31_Counterexample ==
    \E r \in Requests :
        /\ adapter = "gin"
        /\ errs[r] # <<>>
        /\ returned[r] = GinError(errs[r][Len(errs[r])])
        /\ returned[r] # errs[r][Len(errs[r])]

\* Context.Error appends its argument, leaves the cursor and the response
\* alone, and the list only grows.
ErrorAppendsOnly ==
    [][\A r \in Requests :
          /\ IsPrefix(Errors(r), Errors(r)')
          /\ CallsError(r) =>
                /\ Len(errs'[r]) = Len(errs[r]) + 1
                /\ index'[r] = index[r]
                /\ resp'[r] = resp[r]]_vars

----------------------------------------------------------------------------
\* StartLambda.

\* A StartLambda that returns nil.
StartLambdaNil == [called |-> TRUE, returns |-> TRUE, err |-> ""]

\* Server.StartLambda of the std server: the error it returns.
StdStartLambda ==
    [called |-> TRUE, returns |-> TRUE, err |-> "Lambda is only supported with the Gin framework"]

\* Server.StartLambda of the gin server: lambda.Start takes over and does
\* not return.
GinStartLambda == [called |-> TRUE, returns |-> FALSE, err |-> ""]

StartLambda ==
    /\ ~setupPanic
    /\ lambdaResult' = IF adapter = "std" THEN StdStartLambda ELSE GinStartLambda
    /\ UNCHANGED <<adapter, middleware, routes, serving, live, authCfg, setupPanic, noRoute, noMethod,
                   logCfg, builder, created, groupMiddleware, skipCall, phase, request, ctxVars, dupVars, toVars>>

LambdaKinds == {"h_plain", "m_next"}

NextLambda ==
    \/ \E k \in LambdaKinds : Use(k)
    \/ \E hs \in RouteLists(LambdaKinds) : RegisterRoute(hs)
    \/ Run
    \/ StartLambda
    \/ \E r \in Requests : HandleHTTP(r, PlainRequest)
    \/ \E r \in Requests : NextInvoke(r)
    \/ \E r \in Requests : NextReturn(r)
    \/ \E r \in Requests : HandlerNext(r)
    \/ \E r \in Requests : HandlerJSON(r)
    \/ \E r \in Requests : HandlerReturn(r)

SpecLambda == Init /\ [][NextLambda]_vars

----------------------------------------------------------------------------
\* NewServer, then the life of the server it returned.

FrameworkTypes == {"gin", "std", "invalid", ""}
Ports == {"", "8080", "9090"}

\* No server yet.
InitNew ==
    /\ adapter = "none"
    /\ created = NotCreated
    /\ middleware = <<>>
    /\ routes = <<>>
    /\ serving = FALSE
    /\ live = {1}
    /\ NoRequests
    /\ authCfg = NilConfig
    /\ setupPanic = FALSE
    /\ noRoute = <<>>
    /\ noMethod = <<>>
    /\ logCfg = LoggingConfig
    /\ builder = NewServerBuilder
    /\ lambdaResult = NotCalled
    /\ groupMiddleware = <<>>
    /\ skipCall = NoSkipCall

CallNewServer(frameworkType, port) ==
    /\ created = NotCreated
    /\ created' = Created(frameworkType, port)
    /\ adapter' = IF created'.ret.err = "" THEN created'.ret.server.kind ELSE adapter
    /\ UNCHANGED <<middleware, routes, serving, live, authCfg, setupPanic, noRoute, noMethod,
                   logCfg, builder, lambdaResult, groupMiddleware, skipCall, phase, request, ctxVars, dupVars, toVars>>

HasServer == adapter \in {"std", "gin"}

NextNew ==
    \/ \E f \in FrameworkTypes, p \in Ports : CallNewServer(f, p)
    \/ HasServer /\ \E k \in LambdaKinds : Use(k)
    \/ HasServer /\ \E hs \in RouteLists(LambdaKinds) : RegisterRoute(hs)
    \/ HasServer /\ Run
    \/ \E r \in Requests : HandleHTTP(r, PlainRequest)
    \/ \E r \in Requests : NextInvoke(r)
    \/ \E r \in Requests : NextReturn(r)
    \/ \E r \in Requests : HandlerNext(r)
    \/ \E r \in Requests : HandlerJSON(r)
    \/ \E r \in Requests : HandlerReturn(r)

SpecNew == InitNew /\ [][NextNew]_vars

UnsupportedFramework ==
    created.frameworkType = "invalid" /\ created.ret.err # "" /\ created.ret.server = NoServer

----------------------------------------------------------------------------
\* Termination of the timeout middleware and of its goroutine.  Every
\* goroutine that can take a step takes it, and the deadline passes.

SpecTimeoutFair == SpecTimeout /\ WF_vars(NextTimeout)

TimeoutEntered(r) == watcher[r].pc # "none"

\* The middleware has returned, or the panic has left its frame.
TimeoutLeft(r) ==
    \E p \in DOMAIN trace[r] :
        /\ trace[r][p].ev \in {"ret", "unwound"}
        /\ handlers[r][trace[r][p].h + 1] = "timeout"

\* C34: neither the watcher goroutine nor the deferred completion step
\* blocks forever on the responseSent channel: in every interleaving the
\* handler path returns from TimeoutMiddleware and the goroutine terminates.
C34_NoSendBlocksForever ==
    \A r \in Requests : TimeoutEntered(r) ~> (TimeoutLeft(r) /\ watcher[r].pc = "done")

\* Both took the default branch of their select on the empty channel; the
\* goroutine has sent and is gone, and the deferred step waits to send on
\* the full channel, from which nobody will receive.
C34_Counterexample ==
    \E r \in Requests :
        /\ AtDeferred(r, 2)
        /\ responseSent[r] = ChanCap
        /\ watcher[r].pc = "done"

\* The same with the roles exchanged: the middleware has returned and the
\* goroutine waits to send forever.
WatcherBlockedForever ==
    \E r \in Requests :
        /\ TimeoutLeft(r)
        /\ responseSent[r] = ChanCap
        /\ watcher[r].pc = "send"

----------------------------------------------------------------------------
\* The order of the steps of DuplicateRequestMiddleware.

\* r's ID was saved (after a successful generation and a negative check)
\* before event p.
SavedBefore(r, p) == \E q \in Events(r) : q < p /\ IsEv(r, q, "saved")
DupAt(r, h) == h + 1 \in DOMAIN handlers[r] /\ handlers[r][h + 1] = "dup"

\* C35: every request that reaches a handler behind
\* DuplicateRequestMiddleware had its ID generated, checked negative and
\* saved before that handler started; SaveRequestID is called in no other
\* case, so a rejected request leaves the storage unchanged.
C35_SavedBeforeDownstream ==
    \A r \in Requests : \A h \in 0..(MaxChain - 1) : DupAt(r, h) =>
        \A p \in Events(r) :
            (IsEv(r, p, "call") /\ trace[r][p].h > h) => SavedBefore(r, p)

\* A request that the middleware rejected reached the route handler, and
\* its ID was never saved.
C35_Counterexample ==
    \E r \in Requests : \E p \in Events(r), q \in Events(r) :
        /\ p < q
        /\ IsEv(r, p, "reject") /\ DupAt(r, trace[r][p].h)
        /\ IsEv(r, q, "call") /\ trace[r][q].h > trace[r][p].h
        /\ ~HasEv(r, "saved")
        /\ GenerateRequestID(request[r]) \notin store

\* The storage changes only in the step that saves the ID of a request
\* that was not rejected, and a step that rejects leaves it unchanged.
StoreChangesOnlyOnSave ==
    [][store' # store =>
          \E r \in Requests :
              /\ AtHandler(r, "dup") /\ Top(r).pc = 2
              /\ ~HasEv(r, "reject")
              /\ ~HasEv(r, "reject")'
              /\ HasEv(r, "saved")'
              /\ store' = store \cup {GenerateRequestID(request[r])}]_vars

----------------------------------------------------------------------------
\* The std RouterGroup.  RouterGroup.Use appends to the group's middleware.
\* RouterGroup.GET hands Server.GET one wrapped handler for every handler of
\* the route; the wrapped handler, invoked by the loop of Next, calls every
\* middleware of the group, one after the other, and then the handler.

GroupKinds == {"m_next", "m_abort", "h_plain"}
WrappedKinds == {"g_plain"}
Wrapped(kind) == "g_plain"
Inner(kind) == "h_plain"

GroupUse(kind) ==
    /\ adapter = "std"
    /\ ~serving /\ ~setupPanic
    /\ Len(groupMiddleware) < MaxChain - 1
    /\ groupMiddleware' = Append(groupMiddleware, kind)
    /\ UNCHANGED <<adapter, middleware, routes, serving, live, authCfg, setupPanic, noRoute, noMethod,
                   logCfg, builder, lambdaResult, created, skipCall, phase, request, ctxVars, dupVars, toVars>>

GroupGET(hs) ==
    /\ adapter = "std"
    /\ RegisterRoute([n \in DOMAIN hs |-> Wrapped(hs[n])])

\* The closure wrapHandler returns: the frame counts the calls it has made.
WrapHandler(r) ==
    /\ Running(r) /\ Top(r).k = "h" /\ Top(r).kind \in WrappedKinds
    /\ LET f == Top(r)
           called == SetTop(stack[r], [f EXCEPT !.pc = f.pc + 1])
       IN IF f.pc < Len(groupMiddleware)
          THEN /\ stack' = [stack EXCEPT ![r] = Append(called, HandlerFrame(groupMiddleware[f.pc + 1], f.i))]
               /\ trace' = [trace EXCEPT ![r] = Append(trace[r], Event("mw", f.i))]
          ELSE IF f.pc = Len(groupMiddleware)
               THEN /\ stack' = [stack EXCEPT ![r] = Append(called, HandlerFrame(Inner(f.kind), f.i))]
                    /\ trace' = [trace EXCEPT ![r] = Append(trace[r], Event("handler", f.i))]
               ELSE Return(r)
    /\ UNCHANGED <<srvVars, phase, request, handlers, index, panicking, panicValue, errs, wrappers, resp,
                   user, logs, headers, returned, dupVars, toVars>>

InitGroup ==
    /\ NoRequests
    /\ adapter = "std"
    /\ middleware = <<>>
    /\ routes = <<>>
    /\ serving = FALSE
    /\ live = {1}
    /\ NoSetup

NextGroup ==
    \/ \E kind \in GroupKinds : GroupUse(kind)
    \/ \E hs \in RouteLists({"h_plain"}) : GroupGET(hs)
    \/ Run
    \/ \E r \in Requests : HandleHTTP(r, PlainRequest)
    \/ \E r \in Requests : NextInvoke(r)
    \/ \E r \in Requests : NextReturn(r)
    \/ \E r \in Requests : WrapHandler(r)
    \/ \E r \in Requests : HandlerNext(r)
    \/ \E r \in Requests : HandlerAbort(r)
    \/ \E r \in Requests : HandlerJSON(r)
    \/ \E r \in Requests : HandlerReturn(r)

SpecGroup == InitGroup /\ [][NextGroup]_vars

\* The events of one kind in a request's trace.
EventsOf(r, e) == {p \in Events(r) : IsEv(r, p, e)}

\* The route handler that the wrapped handler at position i calls has
\* returned before event p.
HandlerReturned(r, i, p) ==
    \E q \in Events(r), q2 \in Events(r) :
        /\ q < q2 /\ q2 < p
        /\ IsEv(r, q, "handler") /\ trace[r][q].h = i
        /\ IsEv(r, q2, "ret") /\ trace[r][q2].h = i

\* C36: for a route of a std RouterGroup, a request that no handler aborted
\* has, once over, run every group middleware exactly once and before the
\* first route handler, and each return of a Next called by a group
\* middleware came after the last route handler had returned.
C36_GroupMiddlewareOnce ==
    \A r \in Requests :
        (phase[r] = "done" /\ groupMiddleware # <<>> /\ ~HasEv(r, "abort")) =>
            /\ Cardinality(EventsOf(r, "mw")) = Len(groupMiddleware)
            /\ \A p \in EventsOf(r, "mw"), q \in EventsOf(r, "handler") : p < q
            /\ \A p \in EventsOf(r, "nextret") :
                   trace[r][p].h >= 0 => HandlerReturned(r, Len(handlers[r]) - 1, p)

\* A group with one middleware that calls Next, and a route of two
\* handlers: the middleware ran twice, and its Next returned before the
\* first route handler was called.
C36_Counterexample ==
    \E r \in Requests :
        /\ phase[r] = "done"
        /\ groupMiddleware = <<"m_next">>
        /\ handlers[r] = <<"g_plain", "g_plain">>
        /\ Cardinality(EventsOf(r, "mw")) = 2
        /\ \E p \in EventsOf(r, "nextret"), q \in EventsOf(r, "handler") :
               /\ trace[r][p].h = 0 /\ trace[r][q].h = 0 /\ p < q

\* What the code does: a request that is over has run every group
\* middleware once for each wrapped handler that the chain invoked.
GroupMiddlewarePerHandler ==
    \A r \in Requests : phase[r] = "done" =>
        Cardinality(EventsOf(r, "mw")) = Len(groupMiddleware) * Cardinality(EventsOf(r, "call"))

\* With a group middleware that calls no Next and a route of one handler
\* the middleware runs once, before the handler.
GroupSingleHandler ==
    \A r \in Requests :
        (phase[r] = "done" /\ groupMiddleware = <<"h_plain">> /\ Len(handlers[r]) = 1) =>
            /\ Cardinality(EventsOf(r, "mw")) = 1
            /\ \A p \in EventsOf(r, "mw"), q \in EventsOf(r, "handler") : p < q

----------------------------------------------------------------------------
\* A handler that answers with an error itself: c.JSON(code, body) with a
\* status >= 400, behind the std error handler.

FailCodes == {StatusBadRequest, StatusNotFound}
FailMessage == "bad input"

HandlerFail(r, code) ==
    /\ IsScript(r)
    /\ ScriptOp(r) = "Fail"
    /\ LET o == JSON(Writer(r), code, FailMessage)
       IN /\ wrappers' = [wrappers EXCEPT ![r] = o.ws]
          /\ resp' = [resp EXCEPT ![r] = o.out]
    /\ Advance(r)
    /\ UNCHANGED <<srvVars, phase, request, handlers, index, panicking, panicValue, errs, trace, user, logs,
                   headers, returned, dupVars, toVars>>

FailRoutes == {<<"h_fail">>, <<"h_plain">>, <<"h_fail", "h_plain">>, <<"h_fail", "h_fail">>}

InitFail ==
    /\ NoRequests
    /\ adapter = "std"
    /\ middleware = <<"errh">>
    /\ routes \in FailRoutes
    /\ serving = TRUE
    /\ live = {1, 2}
    /\ NoSetup

NextFail ==
    \/ \E r \in Requests : HandleHTTP(r, PlainRequest)
    \/ \E r \in Requests : NextInvoke(r)
    \/ \E r \in Requests : NextReturn(r)
    \/ \E r \in Requests : HandlerJSON(r)
    \/ \E r \in Requests, code \in FailCodes : HandlerFail(r, code)
    \/ \E r \in Requests : HandlerReturn(r)
    \/ \E r \in Requests : ErrorHandlerEnter(r)
    \/ \E r \in Requests : ErrorHandlerExit(r)

SpecFail == InitFail /\ [][NextFail]_vars

\* The bodies the client of a request received, in order.
BodiesSent(r) == SelectSeq(resp[r], LAMBDA x : x.op = "body")
Failing(r) == {n \in DOMAIN handlers[r] : handlers[r][n] = "h_fail"}

\* C37: a request of the std server, behind the error handler, whose
\* handler wrote an error response itself has received, once over, exactly
\* one body, with a status >= 400.
C37_OneEnvelopeOnError ==
    \A r \in Requests :
        (adapter = "std" /\ phase[r] = "done" /\ Failing(r) # {}) =>
            /\ Len(BodiesSent(r)) = 1
            /\ BodiesSent(r)[1].code >= StatusBadRequest

\* One handler answered 400 itself; the client received its body and then
\* the envelope that the error handler wrote for the captured error.
C37_Counterexample ==
    \E r \in Requests :
        /\ adapter = "std" /\ phase[r] = "done"
        /\ handlers[r] = <<"errh", "h_fail">>
        /\ BodiesSent(r) = <<[op |-> "body", code |-> StatusBadRequest, msg |-> FailMessage],
                             [op |-> "body", code |-> StatusBadRequest, msg |-> FailMessage]>>

\* What the code does: every handler's body reaches the client, and the
\* error handler adds one more when a handler answered with an error.
ErrorHandlerAddsBody ==
    \A r \in Requests : phase[r] = "done" =>
        Len(BodiesSent(r)) = Len(handlers[r]) - 1 + (IF Failing(r) # {} THEN 1 ELSE 0)

----------------------------------------------------------------------------
\* The expiry check of parseJWT.

\* A three-segment token whose header and payload decode, with alg HS256
\* and the signature of the configured secret.
WellSigned(cred) ==
    /\ ValidSignature(cred)
    /\ cred.parts[1].b64 /\ cred.parts[1].alg = "HS256"
    /\ cred.parts[2].b64

\* The payload has a numeric exp and the current second is past it.
PastExpiry(cred) == cred.parts[2].exp # <<>> /\ Now > cred.parts[2].exp[1]

CallsLookup(r) ==
    \E p \in (Len(trace[r]) + 1)..Len(trace'[r]) : trace'[r][p].ev = "lookup"

\* C38: for a Bearer token with alg HS256 and the signature of the
\* configured secret, parseJWT fails with "token expired" exactly when the
\* payload has a numeric exp and the current second is greater than it; the
\* JWT AuthMiddleware that authenticates the token answers 401 without a
\* lookup in that case, and otherwise (exp equal to the current second, or
\* no numeric exp) parseJWT returns the payload's claims and the
\* middleware calls the JWT lookup.
C38_ExpiredExactlyWhenPast ==
    [][\A r \in Requests :
          (Authenticates(r) /\ HasBearer(r) /\ WellSigned(Token(r))) =>
              LET t == ParseJWT(Token(r), AuthConfig("auth_jwt").jwtSecret)
                  payload == Token(r).parts[2]
              IN IF PastExpiry(Token(r))
                 THEN /\ t.err = "token expired"
                      /\ Answers401(r) /\ NoLookup(r)
                 ELSE /\ t.err = "nil"
                      /\ t.claims = [sub |-> payload.sub, exp |-> payload.exp]
                      /\ CallsLookup(r)]_vars

\* A token whose exp is the current second went to the lookup.
C38_Witness ==
    \E r \in Requests :
        /\ HasBearer(r) /\ WellSigned(Token(r))
        /\ Token(r).parts[2].exp = <<Now>>
        /\ handlers[r] # <<>>
        /\ HasEv(r, "lookup")

\* A token whose exp is past was rejected, and one without exp looked up.
ExpiredRejected ==
    \E r \in Requests :
        /\ HasBearer(r) /\ WellSigned(Token(r))
        /\ Token(r).parts[2].exp = <<50>>
        /\ RejectedByJWT(r) /\ ~HasEv(r, "lookup")

----------------------------------------------------------------------------
\* The path matcher on strings of characters: a string is the sequence of
\* its characters, over an alphabet with the separator, the colon, the star
\* and one plain character.

MaxLen == 3
Chars == {"/", ":", "a", "*"}
Strings == UNION {[1..n -> Chars] : n \in 0..MaxLen}

\* strings.Split(s, "/"): the pieces between the separators, one piece for
\* a string without separator, the empty string included.
RECURSIVE StringsSplit(_)
StringsSplit(s) ==
    IF \A i \in DOMAIN s : s[i] # "/"
    THEN <<s>>
    ELSE LET i == CHOOSE j \in DOMAIN s : s[j] = "/" /\ \A k \in 1..(j - 1) : s[k] # "/"
         IN <<SubSeq(s, 1, i - 1)>> \o StringsSplit(SubSeq(s, i + 1, Len(s)))

\* strings.HasPrefix(s, ":")
HasPrefix(s) == s # <<>> /\ s[1] = ":"

\* path.Match for patterns of this alphabet: a star matches any run of
\* characters without separator, any other character itself.
RECURSIVE PathMatch(_, _)
PathMatch(pattern, name) ==
    IF pattern = <<>> THEN name = <<>>
    ELSE IF pattern[1] = "*"
         THEN \E k \in 0..Len(name) :
                  /\ \A i \in 1..k : name[i] # "/"
                  /\ PathMatch(Tail(pattern), SubSeq(name, k + 1, Len(name)))
         ELSE /\ name # <<>>
              /\ name[1] = pattern[1]
              /\ PathMatch(Tail(pattern), Tail(name))

isWildcardMatch(pattern, pathStr) == PathMatch(pattern, pathStr)

\* The loop of isParamPatternMatch from segment i on.
RECURSIVE ParamLoop(_, _, _)
ParamLoop(p1, p2, i) ==
    IF i > Len(p1) THEN TRUE
    ELSE IF HasPrefix(p1[i]) THEN ParamLoop(p1, p2, i + 1)
    ELSE IF p1[i] # p2[i] THEN FALSE
    ELSE ParamLoop(p1, p2, i + 1)

\* A matcher that lets a pattern match a path with more segments.
isParamPatternMatchPrefix(pattern, pathStr) ==
    LET p1 == StringsSplit(pattern)
        p2 == StringsSplit(pathStr)
    IN IF Len(p1) > Len(p2) THEN FALSE ELSE ParamLoop(p1, p2, 1)

isParamPatternMatch(pattern, pathStr) ==
    LET p1 == StringsSplit(pattern)
        p2 == StringsSplit(pathStr)
    IN IF Len(p1) # Len(p2) THEN FALSE ELSE ParamLoop(p1, p2, 1)

\* The loop of IsSkipPaths from entry i on.
RECURSIVE SkipLoop(_, _, _)
SkipLoop(pathStr, skipPaths, i) ==
    IF i > Len(skipPaths) THEN FALSE
    ELSE IF \/ pathStr = skipPaths[i]
            \/ isWildcardMatch(skipPaths[i], pathStr)
            \/ isParamPatternMatch(skipPaths[i], pathStr)
         THEN TRUE
         ELSE SkipLoop(pathStr, skipPaths, i + 1)

UtilIsSkipPaths(pathStr, skipPaths) == SkipLoop(pathStr, skipPaths, 1)

CallIsParamPatternMatch(pattern, pathStr) ==
    /\ skipCall = NoSkipCall
    /\ skipCall' = [fn |-> "isParamPatternMatch", pathStr |-> pathStr, skipPaths |-> <<pattern>>,
                    ret |-> isParamPatternMatch(pattern, pathStr)]
    /\ UNCHANGED <<adapter, middleware, routes, serving, live, authCfg, setupPanic, noRoute, noMethod,
                   logCfg, builder, lambdaResult, created, groupMiddleware, phase, request, ctxVars, dupVars, toVars>>

CallIsSkipPaths(pathStr, skipPaths) ==
    /\ skipCall = NoSkipCall
    /\ skipCall' = [fn |-> "IsSkipPaths", pathStr |-> pathStr, skipPaths |-> skipPaths,
                    ret |-> UtilIsSkipPaths(pathStr, skipPaths)]
    /\ UNCHANGED <<adapter, middleware, routes, serving, live, authCfg, setupPanic, noRoute, noMethod,
                   logCfg, builder, lambdaResult, created, groupMiddleware, phase, request, ctxVars, dupVars, toVars>>

\* The entries of the skip lists: a plain path, a glob, patterns with a
\* parameter segment.
SkipPatterns ==
    {<<"/", "a">>, <<"/", "*">>, <<"/", ":">>, <<"a", "/", "*">>, <<"a", "/", ":">>, <<":", "a", "/">>}

InitSkip ==
    /\ NoRequests
    /\ adapter = "std"
    /\ middleware = <<>>
    /\ routes = <<>>
    /\ serving = FALSE
    /\ live = {1}
    /\ NoSetup

NextSkip ==
    \/ /\ skipCall = NoSkipCall
       /\ \E pattern \in Strings, pathStr \in Strings : CallIsParamPatternMatch(pattern, pathStr)
    \/ /\ skipCall = NoSkipCall
       /\ \E pathStr \in Strings, skipPaths \in RouteLists(SkipPatterns) : CallIsSkipPaths(pathStr, skipPaths)

SpecSkip == InitSkip /\ [][NextSkip]_vars

\* The segments of a string: one more than it has separators, the n-th
\* one lying between the (n-1)-th and the n-th separator.
Slashes(s) == {i \in DOMAIN s : s[i] = "/"}
SegmentCount(s) == Cardinality(Slashes(s)) + 1
Boundary(s, n) ==
    IF n = 0 THEN 0
    ELSE IF n = SegmentCount(s) THEN Len(s) + 1
    ELSE CHOOSE i \in Slashes(s) : Cardinality({j \in Slashes(s) : j < i}) = n - 1
Segment(s, n) == SubSeq(s, Boundary(s, n - 1) + 1, Boundary(s, n) - 1)

ParamMatches(pattern, pathStr) ==
    /\ SegmentCount(pattern) = SegmentCount(pathStr)
    /\ \A n \in 1..SegmentCount(pattern) :
           (Segment(pattern, n) = <<>> \/ Segment(pattern, n)[1] # ":")
               => Segment(pattern, n) = Segment(pathStr, n)

\* C39: isParamPatternMatch returns true exactly when pattern and path have
\* the same number of segments and every pattern segment that does not
\* start with ":" equals the path's segment at its position, so never for
\* a pattern with fewer or more segments than the path; IsSkipPaths returns
\* true exactly when some entry equals the path, glob-matches it or
\* param-matches it.
C39_ParamAndSkipMatch ==
    /\ skipCall.fn = "isParamPatternMatch" =>
           /\ skipCall.ret = ParamMatches(skipCall.skipPaths[1], skipCall.pathStr)
           /\ SegmentCount(skipCall.skipPaths[1]) # SegmentCount(skipCall.pathStr) => ~skipCall.ret
    /\ skipCall.fn = "IsSkipPaths" =>
           skipCall.ret = \E n \in DOMAIN skipCall.skipPaths :
                              \/ skipCall.skipPaths[n] = skipCall.pathStr
                              \/ PathMatch(skipCall.skipPaths[n], skipCall.pathStr)
                              \/ ParamMatches(skipCall.skipPaths[n], skipCall.pathStr)

\* "a/:" matched "a/a"; the same pattern did not match a longer path in
\* another call.
C39_Witness ==
    /\ skipCall.fn = "isParamPatternMatch"
    /\ skipCall.skipPaths = <<(<<"a", "/", ":">>)>>
    /\ skipCall.pathStr = <<"a", "/", "a">>
    /\ skipCall.ret

\* A path with more segments than the pattern is no match.
LongerPathNoMatch ==
    /\ skipCall.fn = "isParamPatternMatch"
    /\ skipCall.skipPaths = <<(<<":">>)>>
    /\ skipCall.pathStr = <<"a", "/", "a">>
    /\ ~skipCall.ret

\* The second entry of a skip list matched as a glob.
SkipBySecondEntry ==
    /\ skipCall.fn = "IsSkipPaths"
    /\ skipCall.skipPaths = <<(<<"/", "a">>), (<<"a", "/", "*">>)>>
    /\ skipCall.pathStr = <<"a", "/", ":">>
    /\ skipCall.ret

====
